---- MODULE Spec2Model ----
(***************************************************************************)
(* Shared text search dictionary cache of src/backend/tsearch/ts_shared.c: *)
(* several backends call ts_dict_shared_location and                       *)
(* ts_dict_shared_release for one dictionary.  Every backend has its own   *)
(* dict_table pointer; the control structure, the dshash tables, their     *)
(* partition locks and the cache file are shared.                          *)
(***************************************************************************)
EXTENDS Integers, FiniteSets, Sequences, TLC

\* ---- bounds of the model ----
NumProcs == 2          \* backends
MaxCalls == 4          \* calls of the two entry points, all backends together
MaxGarbage == 1        \* largest value an uninitialised entry field may hold
MaxBlob == 2           \* size of the dictionary the callback builds, in bytes
RefBits == 6           \* width of refcnt in the model (uint32 in the code)
MaxStaleCalls == 2     \* calls, all backends together, under SpecStale

\* ---- program constants ----
InvalidOid == 0
DictOid == 1
TS_DICT_SHMEM_UNLIMITED == -1
PG_MAJOR_VERSION == 2
StaleVersion == 1
HeaderSize == 4
NULL == 0

Procs == 1..NumProcs
Tables == 1..NumProcs
RefMod == 2 ^ RefBits
GarbageValues == 0..MaxGarbage
QuotaValues == {TS_DICT_SHMEM_UNLIMITED, 0, 1}
SysOutcomes == {"ok", "fail_open", "fail_write", "fail_mmap"}
BuildOutcomes == {"ok", "error"}

VARIABLES
    max_shared_dictionaries_size, \* the GUC
    dictBlobSize,      \* size of the dictionary allocate_cb builds
    ctl_handle,        \* tsearch_ctl->dict_table_handle (NULL = invalid)
    ctl_lock,          \* tsearch_ctl->lock
    ntables,           \* dshash tables created so far (handles are 1..ntables)
    dict_table,        \* per backend: static dict_table (NULL or a handle)
    table,             \* per table: the entry of DictOid
    partlock,          \* per table: partition lock of DictOid's partition
    file,              \* the cache file of DictOid
    pc,                \* per backend: position in the code
    arg,               \* per backend: dictid of the running call
    tmp,               \* per backend: refcnt value read by refcnt++
    st_size,           \* per backend: st.st_size of the stat call
    ret,               \* per backend: how the last call ended
    calls,             \* calls started so far (bounded by MaxCalls)
    held,              \* history: shared addresses obtained and not yet released
    nbuild,            \* history: allocate_cb invocations for DictOid
    nerror,            \* history: some call ended with ereport(ERROR)
    unpaired           \* history: a release was called by a backend with held = 0

\* ---- state of one NINormalizeWord call (spell.c) ----
VARIABLES
    Conf,              \* the IspellDict the word is normalized with
    word,              \* the word given to NINormalizeWord
    npc,               \* position in NINormalizeWord
    stack,             \* the running SplitToVariants calls, innermost last
    var,               \* the SplitVar list the outermost SplitToVariants returned
    lres,              \* the TSLexeme array, without its terminator
    NVariant,          \* the variant number NINormalizeWord gives next
    seglog,            \* history: compound segments and the flag used for each
    maxforms           \* history: highest index NormalizeSubWord wrote in forms

cachevars == <<max_shared_dictionaries_size, dictBlobSize, ctl_handle, ctl_lock,
               ntables, dict_table, table, partlock, file, pc, arg, tmp,
               st_size, ret, calls, held, nbuild, nerror, unpaired>>
VARIABLES
    affile,            \* the lines of the affix file, each by its kind
    apos,              \* lines NIImportAffixes has read
    oldformat,         \* NIImportAffixes: a legacy command was seen
    section,           \* NIImportAffixes: the legacy section the line is in
    naffix,            \* rules given to NIAddAffix so far
    apc,               \* position in NIImportAffixes
    pae                \* parse_affentry: str, state, mask, find, repl, result

VARIABLES
    flagmode,          \* Conf->flagMode
    flagstr,           \* the string a flag is read from (*sflagset)
    errno,             \* errno as earlier calls left it
    fout,              \* what the function returned or raised
    fpc                \* "in" before the call, "out" after it

VARIABLES
    AffixData,         \* the flag sets, by index (0 first)
    Spell,             \* p.d.affix of the entries of one word, in sorted order
    spos,              \* entries mkSPNode has put into the slot
    data               \* the SPNodeData slot of the word's last character

VARIABLES
    ConfBuild,         \* IspellDictBuild after the two files were imported
    compiled,          \* what each NISortDictionary run over ConfBuild left
    aout               \* what getAffixFlagSet returned or raised

normvars == <<Conf, word, npc, stack, var, lres, NVariant, seglog, maxforms>>
impvars == <<affile, apos, oldformat, section, naffix, apc, pae>>
numvars == <<flagmode, flagstr, errno, fout, fpc>>
dictvars == <<ConfBuild, compiled, aout>>
spvars == <<AffixData, Spell, spos, data, dictvars>>
spellvars == <<normvars, impvars, numvars, spvars>>
vars == <<cachevars, spellvars>>

\* ---- records ----
FreeLock == [excl |-> NULL, shared |-> {}]
NoEntry == [present |-> FALSE, dict_id |-> InvalidOid, dict_size |-> 0,
            refcnt |-> 0, set |-> FALSE]
NoFile == [exists |-> FALSE, size |-> 0, version |-> 0, copyEnd |-> 0]
NoRet == [kind |-> "none", err |-> "", path |-> ""]

LockFree(l) == l.excl = NULL /\ l.shared = {}
DropHolder(l, p) ==
    [excl |-> IF l.excl = p THEN NULL ELSE l.excl, shared |-> l.shared \ {p}]

\* LWLockRelease wakes the LW_WAIT_UNTIL_FREE waiters of LWLockAcquireOrWait
\* once the lock is free.
Wake(pcs, l) ==
    [q \in Procs |-> IF pcs[q] = "init_wait" /\ LockFree(l)
                     THEN "init_recheck" ELSE pcs[q]]

\* ---- pure functions ----

\* get_dict_address without the header check of an existing file
get_dict_address_unchecked(f, request_size, create_file, sys) ==
    IF create_file
    THEN IF f.exists \/ sys = "fail_open"
         THEN [err |-> "open", file |-> f]
         ELSE IF sys = "fail_write"
         THEN [err |-> "resize", file |-> NoFile]
         ELSE IF sys = "fail_mmap"
         THEN [err |-> "map", file |-> NoFile]
         ELSE [err |-> "none",
               file |-> [exists |-> TRUE, size |-> request_size,
                         version |-> PG_MAJOR_VERSION, copyEnd |-> 0]]
    ELSE IF ~f.exists \/ sys = "fail_open"
         THEN [err |-> "open", file |-> f]
         ELSE IF sys = "fail_mmap"
         THEN [err |-> "map", file |-> f]
         ELSE [err |-> "none", file |-> f]

\* get_dict_address: open (O_CREAT | O_EXCL when create_file), zero-fill,
\* mmap, then write or check the header version.  sys is what the system
\* calls do; the result is the error raised ("none" when the address is
\* returned) and the file afterwards.
get_dict_address(f, request_size, create_file, sys) ==
    IF create_file
    THEN IF f.exists \/ sys = "fail_open"
         THEN [err |-> "open", file |-> f]
         ELSE IF sys = "fail_write"
         THEN [err |-> "resize", file |-> NoFile]
         ELSE IF sys = "fail_mmap"
         THEN [err |-> "map", file |-> NoFile]
         ELSE [err |-> "none",
               file |-> [exists |-> TRUE, size |-> request_size,
                         version |-> PG_MAJOR_VERSION, copyEnd |-> 0]]
    ELSE IF ~f.exists \/ sys = "fail_open"
         THEN [err |-> "open", file |-> f]
         ELSE IF sys = "fail_mmap"
         THEN [err |-> "map", file |-> f]
         ELSE IF f.version # PG_MAJOR_VERSION
         THEN [err |-> "version", file |-> f]
         ELSE [err |-> "none", file |-> f]

\* release_dict_cache: stat the cache file; an error other than ENOENT is
\* raised, a missing file returns, and for an existing file the body ends
\* without unmapping or unlinking anything.
release_dict_cache(f, sys) ==
    IF sys = "fail_stat"
    THEN [err |-> "stat", file |-> f]
    ELSE IF ~f.exists
    THEN [err |-> "none", file |-> f]
    ELSE [err |-> "none", file |-> f]

\* entry->refcnt++ and entry->refcnt-- on the unsigned counter
RefInc(n) == (n + 1) % RefMod
RefDec(n) == (n + RefMod - 1) % RefMod

\* where a call goes after init_dict_table (the OidIsValid test)
AfterInit(id) == IF id = InvalidOid THEN "private_build" ELSE "find"

\* No word is being normalized.
NormOff ==
    /\ Conf = [usecompound |-> FALSE]
    /\ word = <<>>
    /\ npc = "off"
    /\ stack = <<>>
    /\ var = <<>>
    /\ lres = <<>>
    /\ NVariant = 1
    /\ seglog = {}
    /\ maxforms = 0

\* parse_affentry is not running
PaeOff ==
    [str |-> <<>>, pos |-> 1, state |-> 0, mask |-> <<>>, find |-> <<>>,
     repl |-> <<>>, out |-> "off"]

ImpOff ==
    /\ affile = <<>>
    /\ apos = 0
    /\ oldformat = FALSE
    /\ section = "none"
    /\ naffix = 0
    /\ apc = "off"
    /\ pae = PaeOff

NumOff ==
    /\ flagmode = "off"
    /\ flagstr = <<>>
    /\ errno = 0
    /\ fout = [err |-> "", sflag |-> <<>>, rest |-> <<>>]
    /\ fpc = "off"

DictOff ==
    /\ ConfBuild = [useFlagAliases |-> FALSE, Spell |-> <<>>,
                    AffixData |-> <<>>, errno |-> 0]
    /\ compiled = <<>>
    /\ aout = <<>>

SPOff ==
    /\ AffixData = <<>>
    /\ Spell = <<>>
    /\ spos = 0
    /\ data = [isword |-> FALSE, affix |-> 0, compoundflag |-> {}]
    /\ DictOff

SpellOff == NormOff /\ ImpOff /\ NumOff /\ SPOff

\* ---- initial state: TsearchShmemInit has run, no backend has called yet ----
StaleFile == [exists |-> TRUE, size |-> 1, version |-> StaleVersion,
              copyEnd |-> HeaderSize + 1]

CacheInit ==
    /\ max_shared_dictionaries_size \in QuotaValues
    /\ dictBlobSize = MaxBlob
    /\ ctl_handle = NULL
    /\ ctl_lock = FreeLock
    /\ ntables = 0
    /\ dict_table = [p \in Procs |-> NULL]
    /\ table = [t \in Tables |-> NoEntry]
    /\ partlock = [t \in Tables |-> FreeLock]
    /\ file \in {NoFile, StaleFile}
    /\ pc = [p \in Procs |-> "idle"]
    /\ arg = [p \in Procs |-> InvalidOid]
    /\ tmp = [p \in Procs |-> 0]
    /\ st_size = [p \in Procs |-> 0]
    /\ ret = [p \in Procs |-> NoRet]
    /\ calls = 0
    /\ held = [p \in Procs |-> 0]
    /\ nbuild = 0
    /\ nerror = FALSE
    /\ unpaired = FALSE

Init == CacheInit /\ SpellOff

\* The cache while the dictionary code is looked at on its own: no backend
\* calls it.
CacheOff ==
    /\ CacheInit
    /\ max_shared_dictionaries_size = TS_DICT_SHMEM_UNLIMITED
    /\ file = NoFile

cfgvars == <<max_shared_dictionaries_size, dictBlobSize>>
ctlvars == <<ctl_handle, ctl_lock, ntables, dict_table>>

\* A call ends: by return after dshash_release_lock, or by ereport(ERROR),
\* whose abort processing releases every LWLock the backend holds.
End(p, kind, err, path) ==
    /\ pc' = [pc EXCEPT ![p] = "idle"]
    /\ ret' = [ret EXCEPT ![p] = [kind |-> kind, err |-> err, path |-> path]]
    /\ nerror' = (nerror \/ kind = "error")
    /\ partlock' = [t \in Tables |-> DropHolder(partlock[t], p)]
    /\ arg' = [arg EXCEPT ![p] = InvalidOid]
    /\ tmp' = [tmp EXCEPT ![p] = 0]
    /\ st_size' = [st_size EXCEPT ![p] = 0]

\* A step inside a call that changes only the position.
Goto(p, label) ==
    /\ pc' = [pc EXCEPT ![p] = label]
    /\ UNCHANGED <<ret, nerror, arg, tmp, st_size>>

\* ---- init_dict_table ----

\* ts_dict_shared_location is called; init_dict_table returns at once when
\* the backend's dict_table is set.
CallLocation(p) ==
    /\ pc[p] = "idle"
    /\ calls < MaxCalls
    /\ \E id \in {InvalidOid, DictOid} :
         /\ arg' = [arg EXCEPT ![p] = id]
         /\ pc' = [pc EXCEPT ![p] = IF dict_table[p] # NULL
                                    THEN AfterInit(id) ELSE "init_recheck"]
    /\ calls' = calls + 1
    /\ ret' = [ret EXCEPT ![p] = NoRet]
    /\ UNCHANGED <<cfgvars, ctlvars, table, partlock, file, tmp, st_size,
                   held, nbuild, nerror, unpaired>>

\* recheck_table: LWLockAcquire(&tsearch_ctl->lock, LW_SHARED)
InitRecheck(p) ==
    /\ pc[p] = "init_recheck"
    /\ ctl_lock.excl = NULL
    /\ ctl_lock' = [ctl_lock EXCEPT !.shared = @ \cup {p}]
    /\ Goto(p, "init_check")
    /\ UNCHANGED <<cfgvars, ctl_handle, ntables, dict_table, table, partlock,
                   file, calls, held, nbuild, unpaired>>

\* if (DsaPointerIsValid(dict_table_handle)) attach, else release the lock
InitCheck(p) ==
    /\ pc[p] = "init_check"
    /\ IF ctl_handle # NULL
       THEN /\ dict_table' = [dict_table EXCEPT ![p] = ctl_handle]
            /\ pc' = [pc EXCEPT ![p] = "init_unlock"]
            /\ UNCHANGED ctl_lock
       ELSE /\ ctl_lock' = DropHolder(ctl_lock, p)
            /\ pc' = Wake([pc EXCEPT ![p] = "init_acquire"], ctl_lock')
            /\ UNCHANGED dict_table
    /\ UNCHANGED <<cfgvars, ctl_handle, ntables, table, partlock, file, arg,
                   tmp, st_size, ret, calls, held, nbuild, nerror, unpaired>>

\* LWLockAcquireOrWait(LW_EXCLUSIVE): take the lock when it is free,
\* otherwise wait until it is released and return false without the lock.
InitAcquireOrWait(p) ==
    /\ pc[p] = "init_acquire"
    /\ IF LockFree(ctl_lock)
       THEN /\ ctl_lock' = [ctl_lock EXCEPT !.excl = p]
            /\ Goto(p, "init_create")
       ELSE /\ Goto(p, "init_wait")
            /\ UNCHANGED ctl_lock
    /\ UNCHANGED <<cfgvars, ctl_handle, ntables, dict_table, table, partlock,
                   file, calls, held, nbuild, unpaired>>

\* dsa_create, dshash_create, store the handles in tsearch_ctl
InitCreate(p) ==
    /\ pc[p] = "init_create"
    /\ ntables' = ntables + 1
    /\ ctl_handle' = ntables + 1
    /\ dict_table' = [dict_table EXCEPT ![p] = ntables + 1]
    /\ Goto(p, "init_unlock")
    /\ UNCHANGED <<cfgvars, ctl_lock, table, partlock, file, calls, held,
                   nbuild, unpaired>>

\* LWLockRelease(&tsearch_ctl->lock); dsa_pin_mapping; back in the caller
InitUnlock(p) ==
    /\ pc[p] = "init_unlock"
    /\ ctl_lock' = DropHolder(ctl_lock, p)
    /\ pc' = Wake([pc EXCEPT ![p] = AfterInit(arg[p])], ctl_lock')
    /\ UNCHANGED <<cfgvars, ctl_handle, ntables, dict_table, table, partlock,
                   file, arg, tmp, st_size, ret, calls, held, nbuild, nerror,
                   unpaired>>

\* ---- ts_dict_shared_location ----
StatOutcomes == {"ok", "fail_stat"}
Tbl(p) == dict_table[p]
HoldsLock(p) ==
    \/ ctl_lock.excl = p \/ p \in ctl_lock.shared
    \/ \E t \in Tables : partlock[t].excl = p \/ p \in partlock[t].shared

\* if (!OidIsValid(dictid)) return allocate_cb(dictoptions, &dict_size);
\* the private build that also leaves an entry for the id in the table
PrivateBuildInserts(p) ==
    /\ pc[p] = "private_build"
    /\ \E out \in BuildOutcomes :
         IF out = "ok" THEN End(p, "private", "", "invalid")
                       ELSE End(p, "error", "build", "invalid")
    /\ table' = [table EXCEPT ![dict_table[p]].present = TRUE]
    /\ UNCHANGED <<cfgvars, ctlvars, file, calls, held, nbuild, unpaired>>

PrivateBuild(p) ==
    /\ pc[p] = "private_build"
    /\ \E out \in BuildOutcomes :
         IF out = "ok" THEN End(p, "private", "", "invalid")
                       ELSE End(p, "error", "build", "invalid")
    /\ UNCHANGED <<cfgvars, ctlvars, table, file, calls, held, nbuild,
                   unpaired>>

\* entry = dshash_find(dict_table, &dictid, false): the partition lock is
\* taken in shared mode and kept when the entry is found.
Find(p) ==
    /\ pc[p] = "find"
    /\ partlock[Tbl(p)].excl = NULL
    /\ IF table[Tbl(p)].present
       THEN /\ partlock' = [partlock EXCEPT ![Tbl(p)].shared = @ \cup {p}]
            /\ Goto(p, "found_attach")
       ELSE /\ Goto(p, "find_or_insert")
            /\ UNCHANGED partlock
    /\ UNCHANGED <<cfgvars, ctlvars, table, file, calls, held, nbuild,
                   unpaired>>

\* entry found: address = get_dict_address(file_name, entry->dict_size, false)
FoundAttach(p) ==
    /\ pc[p] = "found_attach"
    /\ \E sys \in SysOutcomes :
         LET r == get_dict_address(file, table[Tbl(p)].dict_size, FALSE, sys)
         IN  /\ file' = r.file
             /\ IF r.err = "none"
                THEN Goto(p, "found_read") /\ UNCHANGED partlock
                ELSE End(p, "error", r.err, "found")
    /\ UNCHANGED <<cfgvars, ctlvars, table, calls, held, nbuild, unpaired>>

\* entry->refcnt++ under the shared partition lock: the load ...
FoundRead(p) ==
    /\ pc[p] = "found_read"
    /\ pc' = [pc EXCEPT ![p] = "found_write"]
    /\ tmp' = [tmp EXCEPT ![p] = table[Tbl(p)].refcnt]
    /\ UNCHANGED <<cfgvars, ctlvars, table, partlock, file, arg, st_size, ret,
                   calls, held, nbuild, nerror, unpaired>>

\* ... and the store of refcnt++, then dshash_release_lock and return
FoundWrite(p) ==
    /\ pc[p] = "found_write"
    /\ table' = [table EXCEPT ![Tbl(p)].refcnt = RefInc(tmp[p])]
    /\ held' = [held EXCEPT ![p] = @ + 1]
    /\ End(p, "shared", "", "found")
    /\ UNCHANGED <<cfgvars, ctlvars, file, calls, nbuild, unpaired>>

\* entry = dshash_find_or_insert(dict_table, &dictid, &found): exclusive
\* partition lock; a new entry holds the key and is otherwise uninitialised.
FindOrInsert(p) ==
    /\ pc[p] = "find_or_insert"
    /\ LockFree(partlock[Tbl(p)])
    /\ partlock' = [partlock EXCEPT ![Tbl(p)].excl = p]
    /\ IF table[Tbl(p)].present
       THEN /\ Goto(p, "found2_attach")
            /\ UNCHANGED table
       ELSE /\ Goto(p, "stat")
            /\ \E gs \in GarbageValues, gr \in GarbageValues :
                 table' = [table EXCEPT ![Tbl(p)] =
                             [present |-> TRUE, dict_id |-> arg[p],
                              dict_size |-> gs, refcnt |-> gr, set |-> FALSE]]
    /\ UNCHANGED <<cfgvars, ctlvars, file, calls, held, nbuild, unpaired>>

\* if (found): get_dict_address(..., false); entry->refcnt++; release; return
Found2Attach(p) ==
    /\ pc[p] = "found2_attach"
    /\ \E sys \in SysOutcomes :
         LET r == get_dict_address(file, table[Tbl(p)].dict_size, FALSE, sys)
         IN  /\ file' = r.file
             /\ IF r.err = "none"
                THEN /\ table' = [table EXCEPT ![Tbl(p)].refcnt = RefInc(@)]
                     /\ held' = [held EXCEPT ![p] = @ + 1]
                     /\ End(p, "shared", "", "found2")
                ELSE /\ End(p, "error", r.err, "found2")
                     /\ UNCHANGED <<table, held>>
    /\ UNCHANGED <<cfgvars, ctlvars, calls, nbuild, unpaired>>

\* if (stat(file_name, &st)) { if (errno != ENOENT) ereport } else exists = true
Stat(p) ==
    /\ pc[p] = "stat"
    /\ \E sys \in StatOutcomes :
         IF sys = "fail_stat"
         THEN End(p, "error", "stat", "insert")
         ELSE /\ pc' = [pc EXCEPT ![p] = IF file.exists THEN "map_existing"
                                                        ELSE "build"]
              /\ st_size' = [st_size EXCEPT ![p] = file.size]
              /\ UNCHANGED <<ret, nerror, arg, tmp, partlock>>
    /\ UNCHANGED <<cfgvars, ctlvars, table, file, calls, held, nbuild,
                   unpaired>>

\* if (exists): entry->dict_size = st.st_size; get_dict_address(..., false)
MapExisting(p) ==
    /\ pc[p] = "map_existing"
    /\ table' = [table EXCEPT ![Tbl(p)].dict_size = st_size[p]]
    /\ \E sys \in SysOutcomes :
         LET r == get_dict_address(file, st_size[p], FALSE, sys)
         IN  /\ file' = r.file
             /\ IF r.err = "none"
                THEN Goto(p, "publish") /\ UNCHANGED partlock
                ELSE End(p, "error", r.err, "existing")
    /\ UNCHANGED <<cfgvars, ctlvars, calls, held, nbuild, unpaired>>

\* else: dict = allocate_cb(dictoptions, &entry->dict_size)
Build(p) ==
    /\ pc[p] = "build"
    /\ nbuild' = nbuild + 1
    /\ \E out \in BuildOutcomes :
         IF out = "ok"
         THEN /\ table' = [table EXCEPT ![Tbl(p)].dict_size = dictBlobSize]
              /\ Goto(p, "create_file")
              /\ UNCHANGED partlock
         ELSE /\ End(p, "error", "build", "build")
              /\ UNCHANGED table
    /\ UNCHANGED <<cfgvars, ctlvars, file, calls, held, unpaired>>

\* address = get_dict_address(file_name, entry->dict_size, true)
CreateFile(p) ==
    /\ pc[p] = "create_file"
    /\ \E sys \in SysOutcomes :
         LET r == get_dict_address(file, table[Tbl(p)].dict_size, TRUE, sys)
         IN  /\ file' = r.file
             /\ IF r.err = "none"
                THEN Goto(p, "memcpy") /\ UNCHANGED partlock
                ELSE End(p, "error", r.err, "build")
    /\ UNCHANGED <<cfgvars, ctlvars, table, calls, held, nbuild, unpaired>>

\* memcpy(address, dict, entry->dict_size), address being dict->dict, the
\* first byte after the header
Memcpy(p) ==
    /\ pc[p] = "memcpy"
    /\ file' = [file EXCEPT !.copyEnd = HeaderSize + table[Tbl(p)].dict_size]
    /\ Goto(p, "publish")
    /\ UNCHANGED <<cfgvars, ctlvars, table, partlock, calls, held, nbuild,
                   unpaired>>

\* entry->dict_id = dictid; entry->refcnt = 1; dshash_release_lock; return
Publish(p) ==
    /\ pc[p] = "publish"
    /\ table' = [table EXCEPT ![Tbl(p)].dict_id = arg[p],
                              ![Tbl(p)].refcnt = 1,
                              ![Tbl(p)].set = TRUE]
    /\ held' = [held EXCEPT ![p] = @ + 1]
    /\ End(p, "shared", "", "insert")
    /\ UNCHANGED <<cfgvars, ctlvars, file, calls, nbuild, unpaired>>

\* ---- ts_dict_shared_release ----
Released(n) == IF n > 0 THEN n - 1 ELSE 0

\* ts_dict_shared_release(dictid) is called
CallRelease(p) ==
    /\ pc[p] = "idle"
    /\ calls < MaxCalls
    /\ calls' = calls + 1
    /\ arg' = [arg EXCEPT ![p] = DictOid]
    /\ ret' = [ret EXCEPT ![p] = NoRet]
    /\ unpaired' = (unpaired \/ held[p] = 0)
    /\ pc' = [pc EXCEPT ![p] = IF dict_table[p] # NULL THEN "rel_find"
                                                      ELSE "rel_cache"]
    /\ UNCHANGED <<cfgvars, ctlvars, table, partlock, file, tmp, st_size,
                   held, nbuild, nerror>>

\* if (dict_table): dshash_find(..., true); entry->refcnt--; at zero
\* release_dict_cache(entry->dict_id) and dshash_delete_entry, otherwise
\* dshash_release_lock and return.  No entry: on to release_dict_cache.
RelFind(p) ==
    /\ pc[p] = "rel_find"
    /\ LockFree(partlock[Tbl(p)])
    /\ IF ~table[Tbl(p)].present
       THEN /\ Goto(p, "rel_cache")
            /\ UNCHANGED <<table, partlock, file, held>>
       ELSE IF RefDec(table[Tbl(p)].refcnt) # 0
       THEN /\ table' = [table EXCEPT ![Tbl(p)].refcnt = RefDec(@)]
            /\ held' = [held EXCEPT ![p] = Released(@)]
            /\ End(p, "released", "", "kept")
            /\ UNCHANGED file
       ELSE \E sys \in StatOutcomes :
              LET r == release_dict_cache(file, sys)
              IN  /\ file' = r.file
                  /\ held' = [held EXCEPT ![p] = Released(@)]
                  /\ IF r.err = "none"
                     THEN /\ table' = [table EXCEPT ![Tbl(p)] = NoEntry]
                          /\ End(p, "released", "", "removed")
                     ELSE /\ table' = [table EXCEPT ![Tbl(p)].refcnt = 0]
                          /\ End(p, "error", r.err, "removed")
    /\ UNCHANGED <<cfgvars, ctlvars, calls, nbuild, unpaired>>

\* if (!removed) release_dict_cache(dictid)
RelCache(p) ==
    /\ pc[p] = "rel_cache"
    /\ \E sys \in StatOutcomes :
         LET r == release_dict_cache(file, sys)
         IN  /\ file' = r.file
             /\ IF r.err = "none" THEN End(p, "released", "", "noentry")
                                  ELSE End(p, "error", r.err, "noentry")
    /\ held' = [held EXCEPT ![p] = Released(@)]
    /\ UNCHANGED <<cfgvars, ctlvars, table, calls, nbuild, unpaired>>

\* ---- the system ----
Next ==
    \E p \in Procs :
        \/ CallLocation(p) /\ UNCHANGED spellvars
        \/ InitRecheck(p) /\ UNCHANGED spellvars
        \/ InitCheck(p) /\ UNCHANGED spellvars
        \/ InitAcquireOrWait(p) /\ UNCHANGED spellvars
        \/ InitCreate(p) /\ UNCHANGED spellvars
        \/ InitUnlock(p) /\ UNCHANGED spellvars
        \/ PrivateBuild(p) /\ UNCHANGED spellvars
        \/ Find(p) /\ UNCHANGED spellvars
        \/ FoundAttach(p) /\ UNCHANGED spellvars
        \/ FoundRead(p) /\ UNCHANGED spellvars
        \/ FoundWrite(p) /\ UNCHANGED spellvars
        \/ FindOrInsert(p) /\ UNCHANGED spellvars
        \/ Found2Attach(p) /\ UNCHANGED spellvars
        \/ Stat(p) /\ UNCHANGED spellvars
        \/ MapExisting(p) /\ UNCHANGED spellvars
        \/ Build(p) /\ UNCHANGED spellvars
        \/ CreateFile(p) /\ UNCHANGED spellvars
        \/ Memcpy(p) /\ UNCHANGED spellvars
        \/ Publish(p) /\ UNCHANGED spellvars
        \/ CallRelease(p) /\ UNCHANGED spellvars
        \/ RelFind(p) /\ UNCHANGED spellvars
        \/ RelCache(p) /\ UNCHANGED spellvars

Spec == Init /\ [][Next]_vars

\* ---- a cluster that starts with a cache file left by another major
\* ---- version: every attach meets the stale header, nothing is built
InitStale ==
    /\ Init
    /\ file = StaleFile
    /\ max_shared_dictionaries_size = TS_DICT_SHMEM_UNLIMITED

NextStale ==
    \E p \in Procs :
        \/ (calls < MaxStaleCalls /\ CallLocation(p)) /\ UNCHANGED spellvars
        \/ InitRecheck(p) /\ UNCHANGED spellvars
        \/ InitCheck(p) /\ UNCHANGED spellvars
        \/ InitAcquireOrWait(p) /\ UNCHANGED spellvars
        \/ InitCreate(p) /\ UNCHANGED spellvars
        \/ InitUnlock(p) /\ UNCHANGED spellvars
        \/ PrivateBuild(p) /\ UNCHANGED spellvars
        \/ Find(p) /\ UNCHANGED spellvars
        \/ FoundAttach(p) /\ UNCHANGED spellvars
        \/ FindOrInsert(p) /\ UNCHANGED spellvars
        \/ Found2Attach(p) /\ UNCHANGED spellvars
        \/ Stat(p) /\ UNCHANGED spellvars
        \/ MapExisting(p) /\ UNCHANGED spellvars
        \/ (calls < MaxStaleCalls /\ CallRelease(p)) /\ UNCHANGED spellvars
        \/ RelFind(p) /\ UNCHANGED spellvars
        \/ RelCache(p) /\ UNCHANGED spellvars

SpecStale == InitStale /\ [][NextStale]_vars

\* ---- statements the code does not satisfy ----
AllIdle == \A p \in Procs : pc[p] = "idle"
Unlimited == max_shared_dictionaries_size = TS_DICT_SHMEM_UNLIMITED
PublishedIn(t) == table[t].present /\ table[t].set
RECURSIVE SumHeld(_, _)
SumHeld(t, n) ==
    IF n = 0 THEN 0
    ELSE (IF dict_table[n] = t THEN held[n] ELSE 0) + SumHeld(t, n - 1)

\* C1: as long as no call has failed, backends calling
\* ts_dict_shared_location for the same dictionary, which had no entry and
\* no cache file, run the build callback once in all and publish one entry,
\* to which the other callers attach.
C1_OneBuildOneEntry ==
    (Unlimited /\ ~nerror)
    => (/\ nbuild <= 1
        /\ Cardinality({t \in Tables : PublishedIn(t)}) <= 1)

\* C2: when no call is in progress (and none has failed, every release
\* followed an attach of the same backend, one table exists), the refcount
\* of the entry is the number of attaches minus the number of releases: no
\* refcnt++ of two backends on the entry-found path is lost.
C2_RefcountExact ==
    (Unlimited /\ AllIdle /\ ~nerror /\ ~unpaired /\ ntables = 1)
    => (table[1].present => table[1].refcnt = SumHeld(1, NumProcs))

\* C3: a release removes the entry of a table only when afterwards no
\* backend using that table still holds an address it has not released,
\* also when the releasing backend never attached.
C3_RemovedOnlyWhenUnused ==
    [][\A t \in Tables :
         (Unlimited /\ ~nerror' /\ table[t].present /\ ~table'[t].present)
         => (\A q \in Procs : dict_table[q] = t => held'[q] = 0)]_vars

\* C4: a failed build leaves no visible entry behind: once a call has
\* ended with an error of the build callback, every entry a lookup can find
\* (its partition lock is not held exclusively) has its size and refcount
\* set and its file populated with the dictionary.
C4_VisibleEntryComplete ==
    (/\ Unlimited
     /\ \E p \in Procs : pc[p] = "idle" /\ ret[p].err = "build")
    => \A t \in Tables :
         (table[t].present /\ partlock[t].excl = NULL)
         => (table[t].set /\ file.exists /\ file.copyEnd > 0)

\* C5: a backend about to run the build callback for a valid dictionary
\* holds neither the control lock nor a partition lock.
C5_BuildOutsideLocks ==
    \A p \in Procs : (Unlimited /\ pc[p] = "build") => ~HoldsLock(p)

\* C6: once the dictionary was built and every attach has been followed by
\* its release (no call in progress, none failed), no table has an entry
\* for the dictionary and its cache file has been removed.
C6_ReleaseToZero ==
    (/\ Unlimited /\ AllIdle /\ ~nerror /\ ~unpaired /\ nbuild >= 1
     /\ \A p \in Procs : held[p] = 0)
    => (/\ \A t \in Tables : ~table[t].present
        /\ ~file.exists)

\* C7: with a quota smaller than the size of the built dictionary no entry
\* is published, no cache file is created and no caller is handed a shared
\* address.
C7_QuotaFallback ==
    (/\ max_shared_dictionaries_size > 0
     /\ max_shared_dictionaries_size < dictBlobSize)
    => (/\ \A t \in Tables : ~PublishedIn(t)
        /\ \A p \in Procs : ret[p].kind # "shared"
        /\ file.version # PG_MAJOR_VERSION)

\* C8: with the quota set to zero the shared table is never created and no
\* entry or cache file comes into being.
C8_ZeroDisables ==
    (max_shared_dictionaries_size = 0)
    => (/\ ctl_handle = NULL
        /\ ntables = 0
        /\ \A t \in Tables : ~table[t].present
        /\ file.version # PG_MAJOR_VERSION)

\* C9: the shared table is created once: a valid handle in the control
\* structure is never replaced, and every backend that has a table has the
\* one the control structure names.
C9_TableCreatedOnce ==
    /\ ntables <= 1
    /\ \A p \in Procs : dict_table[p] \in {NULL, ctl_handle}

\* ---- claims that hold ----

\* C10: an attach to an existing cache file (get_dict_address with
\* create_file false, from any of its three call sites) whose header version
\* differs from the running version ends the call with an error, returns no
\* address, and leaves the refcount of the entry as it was.
C10_VersionMismatchRaises ==
    [][\A p \in Procs :
         (/\ pc[p] \in {"found_attach", "found2_attach", "map_existing"}
          /\ pc'[p] # pc[p]
          /\ file.exists
          /\ file.version # PG_MAJOR_VERSION)
         => (/\ pc'[p] = "idle"
             /\ ret'[p].kind = "error"
             /\ held'[p] = held[p]
             /\ table'[Tbl(p)].refcnt = table[Tbl(p)].refcnt)]_vars

\* a backend found a published entry and its attach failed on the version
C10_Witness ==
    \E p \in Procs :
        /\ pc[p] = "idle"
        /\ ret[p] = [kind |-> "error", err |-> "version", path |-> "found"]
        /\ table[Tbl(p)].present

(***************************************************************************)
(* Ispell dictionary of src/backend/tsearch/spell.c.  A string is a        *)
(* sequence of one-character strings; a set of FF_ bits is the set of the  *)
(* bit values; a char * that may be NULL is a sequence of at most one      *)
(* element.                                                                *)
(***************************************************************************)

\* ---- bounds of the Ispell model ----
MAXNORMLEN == 4        \* longest word NormalizeSubWord accepts (256 in the code)
MAX_NORM == 5          \* capacity of forms and of lres (1024 in the code)

\* ---- constants of spell.h ----
FF_COMPOUNDONLY == 1
FF_COMPOUNDBEGIN == 2
FF_COMPOUNDMIDDLE == 4
FF_COMPOUNDLAST == 8
FF_COMPOUNDPERMITFLAG == 16
FF_COMPOUNDFORBIDFLAG == 32
FF_CROSSPRODUCT == 64
FF_SUFFIX == 1
FF_PREFIX == 0
ISPELL_INVALID_INDEX == -1
NVariantMod == 65536
NoBaselen == -1
FF_COMPOUNDFLAG == {FF_COMPOUNDBEGIN, FF_COMPOUNDMIDDLE, FF_COMPOUNDLAST}
FF_COMPOUNDFLAGMASK ==
    {FF_COMPOUNDONLY, FF_COMPOUNDBEGIN, FF_COMPOUNDMIDDLE, FF_COMPOUNDLAST}
VoidString == ""

\* strncmp(p, w, strlen(p)) = 0, and the same from the end of the word
\* (GETWCHAR with FF_SUFFIX reads the word backwards)
IsPrefixOf(p, w) == Len(p) <= Len(w) /\ SubSeq(w, 1, Len(p)) = p
IsSuffixOf(s, w) ==
    Len(s) <= Len(w) /\ SubSeq(w, Len(w) - Len(s) + 1, Len(w)) = s

\* IsAffixFlagInUse in FM_CHAR mode: getNextFlagFromString yields the
\* characters of sflagset one by one.
IsAffixFlagInUse(sflagset, affixflag) ==
    \/ affixflag = VoidString
    \/ \E i \in DOMAIN sflagset : sflagset[i] = affixflag

\* FindWord: the descent through the word trie ends at an entry with isword
\* exactly when w is a word of the dictionary; Dictionary maps every word to
\* the affix (its flag set in AffixData) and the compoundflag of its entry.
\* FindWord with every entry that may stand in a compound refused for a
\* plain lookup
FindWordNoCompound(Cf, w, affixflag, flag) ==
    LET fl == flag \cap FF_COMPOUNDFLAGMASK
    IN  /\ w \in DOMAIN Cf.Dictionary
        /\ IF fl = {}
           THEN Cf.Dictionary[w].compoundflag = {}
           ELSE fl \cap Cf.Dictionary[w].compoundflag # {}
        /\ IsAffixFlagInUse(Cf.Dictionary[w].affix, affixflag)

FindWord(Cf, w, affixflag, flag) ==
    LET fl == flag \cap FF_COMPOUNDFLAGMASK
    IN  /\ w \in DOMAIN Cf.Dictionary
        /\ IF fl = {}
           THEN FF_COMPOUNDONLY \notin Cf.Dictionary[w].compoundflag
           ELSE fl \cap Cf.Dictionary[w].compoundflag # {}
        /\ IsAffixFlagInUse(Cf.Dictionary[w].affix, affixflag)

\* CheckAffix: <<>> for NULL, else <<newword>>.  The regis and regex matches
\* are commented out in the code: a rule that is not simple returns NULL.
CheckAffix(w, Affix, flagflags, baselen) ==
    LET ff == Affix.flagflags
        refused ==
            IF flagflags = {} THEN FF_COMPOUNDONLY \in ff
            ELSE IF FF_COMPOUNDBEGIN \in flagflags
            THEN \/ FF_COMPOUNDFORBIDFLAG \in ff
                 \/ (FF_COMPOUNDBEGIN \notin ff /\ Affix.type = FF_SUFFIX)
            ELSE IF FF_COMPOUNDMIDDLE \in flagflags
            THEN FF_COMPOUNDMIDDLE \notin ff \/ FF_COMPOUNDFORBIDFLAG \in ff
            ELSE IF FF_COMPOUNDLAST \in flagflags
            THEN \/ FF_COMPOUNDFORBIDFLAG \in ff
                 \/ (FF_COMPOUNDLAST \notin ff /\ Affix.type = FF_PREFIX)
            ELSE FALSE
        newword ==
            IF Affix.type = FF_SUFFIX
            THEN SubSeq(w, 1, Len(w) - Len(Affix.repl)) \o Affix.find
            ELSE Affix.find \o SubSeq(w, Len(Affix.repl) + 1, Len(w))
    IN  IF refused THEN <<>>
        ELSE IF /\ Affix.type = FF_PREFIX
                /\ baselen # NoBaselen
                /\ baselen + Len(Affix.find) <= Len(Affix.repl)
        THEN <<>>
        ELSE IF Affix.issimple THEN <<newword>>
        ELSE <<>>

\* The nodes FindAffixes returns in the loops of NormalizeSubWord, one after
\* the other: the void node first, then deeper and deeper nodes; together
\* they hold the rules of the type whose repl the word starts (ends) with,
\* in the order of the sorted Affix array.
FindAffixes(Cf, w, type) ==
    SelectSeq(Cf.Affix,
              LAMBDA A : /\ A.type = type
                         /\ IF type = FF_PREFIX THEN IsPrefixOf(A.repl, w)
                                                ELSE IsSuffixOf(A.repl, w))

\* addToResult without the test for a full array
addToResultUnguarded(forms, w) ==
    IF forms = <<>> \/ forms[Len(forms)] # w THEN Append(forms, w) ELSE forms

\* addToResult that looks for the form in the whole array
addToResultUnique(forms, w) ==
    IF Len(forms) >= MAX_NORM - 1 THEN forms
    ELSE IF \A i \in 1..Len(forms) : forms[i] # w THEN Append(forms, w)
    ELSE forms

\* addToResult: forms holds MAX_NORM pointers; the last pointer written is
\* the NULL after the new form
addToResult(forms, w) ==
    IF Len(forms) >= MAX_NORM - 1 THEN forms
    ELSE IF forms = <<>> \/ forms[Len(forms)] # w THEN Append(forms, w)
    ELSE forms

\* The prefix loop that asks for no flag when one of the two rules has
\* FF_CROSSPRODUCT
RECURSIVE PrefixLoopEitherCross(_, _, _, _, _, _, _)
PrefixLoopEitherCross(Cf, forms, x, flag, prefix, baselen, sflagflags) ==
    IF prefix = <<>> THEN forms
    ELSE
      LET P == Head(prefix)
          pnewword == CheckAffix(x, P, flag, baselen)
          ff == IF FF_CROSSPRODUCT \in (P.flagflags \cup sflagflags)
                THEN VoidString ELSE P.flag
          f1 == IF pnewword # <<>> /\ FindWord(Cf, pnewword[1], ff, flag)
                THEN addToResult(forms, pnewword[1]) ELSE forms
      IN  PrefixLoopEitherCross(Cf, f1, x, flag, Tail(prefix), baselen,
                                sflagflags)

\* The loop over the prefix rules of x: alone (baselen NULL, no suffix) and
\* after a suffix rule with flagflags sflagflags was stripped.
RECURSIVE PrefixLoop(_, _, _, _, _, _, _)
PrefixLoop(Cf, forms, x, flag, prefix, baselen, sflagflags) ==
    IF prefix = <<>> THEN forms
    ELSE
      LET P == Head(prefix)
          pnewword == CheckAffix(x, P, flag, baselen)
          ff == IF FF_CROSSPRODUCT \in (P.flagflags \cap sflagflags)
                THEN VoidString ELSE P.flag
          f1 == IF pnewword # <<>> /\ FindWord(Cf, pnewword[1], ff, flag)
                THEN addToResult(forms, pnewword[1]) ELSE forms
      IN  PrefixLoop(Cf, f1, x, flag, Tail(prefix), baselen, sflagflags)

\* The loop over the suffix rules of w, with the prefix loop inside it.
RECURSIVE SuffixLoop(_, _, _, _, _)
SuffixLoop(Cf, forms, w, flag, suffix) ==
    IF suffix = <<>> THEN forms
    ELSE
      LET S == Head(suffix)
          baselen == Len(w) - Len(S.repl)
          newword == CheckAffix(w, S, flag, baselen)
          f1 == IF newword # <<>> /\ FindWord(Cf, newword[1], S.flag, flag)
                THEN addToResult(forms, newword[1]) ELSE forms
          f2 == IF newword # <<>>
                THEN PrefixLoop(Cf, f1, newword[1], flag,
                                FindAffixes(Cf, newword[1], FF_PREFIX),
                                baselen, S.flagflags)
                ELSE forms
      IN  SuffixLoop(Cf, f2, w, flag, Tail(suffix))

\* NormalizeSubWord: the forms found; <<>> stands for the NULL it returns
\* when the word is too long or nothing was found.
NormalizeSubWord(Cf, w, flag) ==
    IF Len(w) > MAXNORMLEN THEN <<>>
    ELSE
      LET f0 == IF FindWord(Cf, w, VoidString, flag) THEN <<w>> ELSE <<>>
          f1 == PrefixLoop(Cf, f0, w, flag, FindAffixes(Cf, w, FF_PREFIX),
                           NoBaselen, {})
      IN  SuffixLoop(Cf, f1, w, flag, FindAffixes(Cf, w, FF_SUFFIX))

\* ---- compound affix list ----

\* isAffixInUse: some flag set of AffixData holds the flag; AffixData holds
\* the flag sets of the words.
isAffixInUse(Dictionary, affixflag) ==
    \E w \in DOMAIN Dictionary : IsAffixFlagInUse(Dictionary[w].affix, affixflag)

\* NISortAffixes, the loop that fills CompoundAffix from entry i of the
\* sorted Affix array on: cmpd is the list written so far.  For an entry
\* that is not the first the code reads issuffix of the slot it has not
\* written yet: unwritten is what it finds there.
RECURSIVE SortAffixesLoop(_, _, _, _, _)
SortAffixesLoop(Affix, Dictionary, i, cmpd, unwritten) ==
    IF i > Len(Affix)
    THEN Append(cmpd, [affix |-> ISPELL_INVALID_INDEX])
    ELSE
      LET A == Affix[i]
          last == cmpd[Len(cmpd)]
          take ==
              /\ A.flagflags \cap FF_COMPOUNDFLAG # {}
              /\ Len(A.repl) > 0
              /\ isAffixInUse(Dictionary, A.flag)
              /\ \/ cmpd = <<>>
                 \/ unwritten # last.issuffix
                 \/ ~IsSuffixOf(Affix[last.affix + 1].repl, A.repl)
      IN  SortAffixesLoop(Affix, Dictionary, i + 1,
              IF take THEN Append(cmpd, [affix |-> i - 1,
                                         len |-> Len(A.repl),
                                         issuffix |-> (A.type = FF_SUFFIX)])
                      ELSE cmpd,
              unwritten)

\* NISortAffixes: CompoundAffix stays NULL (<<>>) without affixes
NISortAffixes(Affix, Dictionary, unwritten) ==
    IF Affix = <<>> THEN <<>>
    ELSE SortAffixesLoop(Affix, Dictionary, 1, <<>>, unwritten)

\* strstr(w, a): the offset of the first occurrence of a in w, -1 for none
RECURSIVE strstr(_, _, _)
strstr(w, a, k) ==
    IF k + Len(a) > Len(w) THEN -1
    ELSE IF SubSeq(w, k + 1, k + Len(a)) = a THEN k
    ELSE strstr(w, a, k + 1)

\* CheckCompoundAffixes from the entry *ptr on: the value returned, the new
\* *ptr, and what was undefined on the way.  The entry's affix field is the
\* index NISortAffixes wrote; the code hands it to strncmp and strstr as if
\* it were the string of that rule (undefined, deref), and it stops at an
\* index of 0 only, so that it reads on behind the terminator (undefined,
\* overrun).  ret and ptr are the result when the string read is the repl
\* of the rule.
RECURSIVE CheckCompoundAffixes(_, _, _, _)
CheckCompoundAffixes(Cf, ptr, w, CheckInPlace) ==
    IF Cf.CompoundAffix = <<>>
    THEN [ret |-> -1, ptr |-> ptr, overrun |-> FALSE, deref |-> FALSE]
    ELSE
      LET e == Cf.CompoundAffix[ptr]
          a == Cf.Affix[e.affix + 1].repl
          at == IF CheckInPlace THEN (IF IsPrefixOf(a, w) THEN 0 ELSE -1)
                ELSE strstr(w, a, 0)
      IN  IF e.affix = 0
          THEN [ret |-> -1, ptr |-> ptr, overrun |-> FALSE, deref |-> FALSE]
          ELSE IF e.affix = ISPELL_INVALID_INDEX
          THEN [ret |-> -1, ptr |-> ptr, overrun |-> TRUE, deref |-> FALSE]
          ELSE IF Len(w) > e.len /\ at >= 0
          THEN [ret |-> IF e.issuffix THEN e.len + at ELSE 0,
                ptr |-> ptr + 1, overrun |-> FALSE, deref |-> TRUE]
          ELSE LET rest == CheckCompoundAffixes(Cf, ptr + 1, w, CheckInPlace)
               IN  [rest EXCEPT !.deref = @ \/ Len(w) > e.len]

\* ---- word trie ----

\* StopMiddle->node of the entry reached by path (Conf->Dictionary for the
\* empty path): mkSPNode makes a node when a word goes on after path.
ChildNode(Cf, path) ==
    IF \E w \in DOMAIN Cf.Dictionary : IsPrefixOf(path, w) /\ Len(w) > Len(path)
    THEN <<path>> ELSE <<>>

\* The binary search of a node finds the entry of a character when some word
\* goes through it.
HasEntry(Cf, path) == \E w \in DOMAIN Cf.Dictionary : IsPrefixOf(path, w)

\* ---- SplitToVariants ----

\* The frame of a call SplitToVariants(Conf, snode, orig, word, wordlen,
\* startpos, minpos) at its first loop test; var is the head SplitVar's
\* stems, next the list linked behind it.
NewFrame(Cf, w, snode, orig, startpos, minpos) ==
    [node |-> IF snode # <<>> THEN snode ELSE ChildNode(Cf, <<>>),
     level |-> IF snode # <<>> THEN minpos ELSE startpos,
     startpos |-> startpos,
     minpos |-> minpos,
     notprobed |-> 0..(Len(w) - 1),
     var |-> orig,
     next |-> <<>>,
     caff |-> 1,
     pc |-> "loop"]

\* The stack after the innermost call returned the list res: its caller
\* links res behind its own list and goes on, after line 2544 with the next
\* compound affix, after line 2599 with the next word at level + 1.
Return(Cf, stk, w, res) ==
    IF Len(stk) = 1 THEN <<>>
    ELSE
      LET c == stk[Len(stk) - 1]
          c1 == [c EXCEPT !.next = @ \o res]
          c2 == IF c.pc = "call_affix"
                THEN [c1 EXCEPT !.pc = "affix"]
                ELSE [c1 EXCEPT !.level = c.level + 1,
                                !.var = Append(@, SubSeq(w, c.startpos + 1,
                                                         c.level + 1)),
                                !.node = ChildNode(Cf, <<>>),
                                !.startpos = c.level + 1,
                                !.pc = "loop"]
      IN  Append(SubSeq(stk, 1, Len(stk) - 2), c2)

\* ---- compiling: the flags of the affix file and the entries of the trie ----

\* CompoundAffixFlags of an affix file with the directives COMPOUNDFLAG C,
\* COMPOUNDBEGIN B, COMPOUNDLAST L and ONLYINCOMPOUND O; no directive, no
\* entry, and usecompound stays false.
CompoundAffixFlags(usecompound) ==
    IF usecompound
    THEN [f \in {"C", "B", "L", "O"} |->
            CASE f = "C" -> FF_COMPOUNDFLAG
              [] f = "B" -> {FF_COMPOUNDBEGIN}
              [] f = "L" -> {FF_COMPOUNDLAST}
              [] f = "O" -> {FF_COMPOUNDONLY}]
    ELSE [f \in {} |-> {}]

\* makeCompoundFlags: the values of the flags of a flag set, or-ed
makeCompoundFlags(flags, sflagset) ==
    UNION {flags[sflagset[i]] :
             i \in {k \in DOMAIN sflagset : sflagset[k] \in DOMAIN flags}}
        \cap FF_COMPOUNDFLAGMASK

\* The compoundflag mkSPNode stores for a flag set (lines 1806-1814)
SPNodeCompoundFlag(flags, sflagset, clearCompoundOnly) ==
    LET cf == makeCompoundFlags(flags, sflagset)
        cf1 == IF FF_COMPOUNDONLY \in cf /\ cf \cap FF_COMPOUNDFLAG = {}
               THEN cf \cup FF_COMPOUNDFLAG ELSE cf
    IN  IF clearCompoundOnly THEN cf1 \ {FF_COMPOUNDONLY} ELSE cf1

\* RS_isRegis (regis.c): the mask is a sequence of letters and bracket sets
RS_isRegis(mask) == mask = "[^s]"

\* NIAddAffix: the AFFIX record of a rule
NIAddAffix(flag, flagflags, mask, find, repl, type) ==
    [type |-> type,
     flag |-> flag,
     flagflags |->
         IF /\ flagflags \cap {FF_COMPOUNDONLY, FF_COMPOUNDPERMITFLAG} # {}
            /\ flagflags \cap FF_COMPOUNDFLAG = {}
         THEN flagflags \cup FF_COMPOUNDFLAG ELSE flagflags,
     issimple |-> (mask = "." \/ mask = ""),
     isregis |-> (~(mask = "." \/ mask = "") /\ RS_isRegis(mask)),
     mask |-> mask,
     find |-> find,
     repl |-> repl]

\* ---- the dictionaries and words NINormalizeWord is run with ----

\* the flag sets the word "a" may carry in the .dict file
FlagSetsOfA == {<<>>, <<"P", "S">>, <<"C", "S">>, <<"C", "P", "S">>, <<"O">>}

\* the other words of the .dict file
OtherWords ==
    {[w \in {} |-> <<>>],
     [w \in {<<"b">>} |-> <<"C">>],
     [w \in {<<"a", "s">>, <<"b", "a", "s">>, <<"b", "a">>, <<"b">>} |->
          IF w = <<"a", "s">> THEN <<"C", "P">>
          ELSE IF w = <<"b", "a">> THEN <<"S">>
          ELSE IF w = <<"b">> THEN <<"T">>
          ELSE <<>>],
     [w \in {<<"b", "a">>} |-> <<"S", "T">>],
     [w \in {[i \in 1..(MAXNORMLEN + 1) |-> "a"]} |-> <<>>]}

\* the prefix rules of the affix file: none, or "b" before the root
PrefixRules ==
    {<<>>} \cup
    {<<NIAddAffix("P", ff, ".", <<>>, <<"b">>, FF_PREFIX)>> :
        ff \in {{}, {FF_CROSSPRODUCT}, FF_COMPOUNDFLAG}}

\* the suffix rules: none, or "s" after the root, with a mask that is
\* simple, a regis or a regex, or "s" and "as" (in the order cmpaffix gives),
\* or "s" twice, for two flags
SuffixRules ==
    {<<>>} \cup
    {<<NIAddAffix("S", ff, ".", <<>>, <<"s">>, FF_SUFFIX)>> :
        ff \in {{}, {FF_CROSSPRODUCT}, FF_COMPOUNDFLAG}} \cup
    {<<NIAddAffix("S", {}, mask, <<>>, <<"s">>, FF_SUFFIX)>> :
        mask \in {"[^s]", "[^s]|b"}} \cup
    {<<NIAddAffix("S", {FF_CROSSPRODUCT}, ".", <<>>, <<"s">>, FF_SUFFIX),
       NIAddAffix("T", {}, ".", <<>>, <<"a", "s">>, FF_SUFFIX)>>,
     <<NIAddAffix("S", {}, ".", <<>>, <<"s">>, FF_SUFFIX),
       NIAddAffix("T", {}, ".", <<>>, <<"s">>, FF_SUFFIX)>>}

\* the words: a..a s..s up to MAXNORMLEN + 1 characters, and some with b
Words ==
    {[i \in 1..n |-> IF i <= k THEN "a" ELSE "s"] :
        n \in 1..(MAXNORMLEN + 1), k \in 0..(MAXNORMLEN + 1)} \cup
    {<<"b">>, <<"b", "a">>, <<"b", "a", "s">>, <<"a", "b">>, <<"b", "a", "a">>}

\* the compound scenario of "football" (the words tried with it are longer
\* than the scaled MAXNORMLEN, and not in the dictionary: the lookup of the
\* whole word finds nothing either way)
FootballConf ==
    [usecompound |-> TRUE,
     Dictionary |->
         [w \in {<<"f", "o", "o", "t">>, <<"b", "a", "l", "l">>} |->
             LET fs == IF w[1] = "f" THEN <<"B">> ELSE <<"L">>
             IN  [affix |-> fs,
                  compoundflag |->
                      SPNodeCompoundFlag(CompoundAffixFlags(TRUE), fs, FALSE)]],
     Affix |-> <<>>,
     CompoundAffix |-> <<>>]

\* A compiled dictionary: the word trie, the sorted Affix array (prefixes
\* first) and the compound affix list made from them.  An entry of the trie
\* is written into memory that was not zeroed; cleared is the case in which
\* clearCompoundOnly came out true for the word "a".
InitNorm ==
    /\ CacheOff /\ ImpOff /\ NumOff /\ SPOff
    /\ \/ \E usecompound \in BOOLEAN,
             fa \in {<<>>} \cup {<<fs>> : fs \in FlagSetsOfA},
             others \in OtherWords, pfx \in PrefixRules, sfx \in SuffixRules,
             cleared \in BOOLEAN, unwritten \in BOOLEAN :
            LET flags == CompoundAffixFlags(usecompound)
                fsets == IF fa = <<>> THEN others
                         ELSE [w \in DOMAIN others \cup {<<"a">>} |->
                                 IF w = <<"a">> THEN fa[1] ELSE others[w]]
                dict == [w \in DOMAIN fsets |->
                           [affix |-> fsets[w],
                            compoundflag |->
                                SPNodeCompoundFlag(flags, fsets[w],
                                    cleared /\ w = <<"a">>)]]
            IN  /\ Conf = [usecompound |-> usecompound,
                           Dictionary |-> dict,
                           Affix |-> pfx \o sfx,
                           CompoundAffix |->
                               NISortAffixes(pfx \o sfx, dict, unwritten)]
                /\ word \in Words
       \/ /\ Conf = FootballConf
          /\ word \in {<<"f", "o", "o", "t", "b", "a", "l", "l">>,
                        <<"f", "o", "o", "t">>,
                        <<"b", "a", "l", "l", "f", "o", "o", "t">>}
    /\ npc = "start"
    /\ stack = <<>>
    /\ var = <<>>
    /\ lres = <<>>
    /\ NVariant = 1
    /\ seglog = {}
    /\ maxforms = 0

\* ---- NINormalizeWord ----

\* NVariant++ of a uint16
NextVariantStuck(n) == n

NextVariant(n) == (n + 1) % NVariantMod

\* addNorm: lres holds MAX_NORM lexemes, the last one written is the
\* terminator after the new lexeme; group is history: <<0, i>> for the i-th
\* root found without splitting, <<v, k>> for the k-th form of the last stem
\* of the v-th SplitVar.
addNorm(lr, w, nv, group) ==
    IF Len(lr) < MAX_NORM - 1
    THEN Append(lr, [lexeme |-> w, nvariant |-> nv, group |-> group])
    ELSE lr

\* lines 2649-2655: every form of the word itself gets its own number
RECURSIVE RootsLoop(_, _, _)
RootsLoop(st, res, i) ==
    IF i > Len(res) \/ Len(st.lres) >= MAX_NORM THEN st
    ELSE RootsLoop([st EXCEPT
                      !.lres = addNorm(@, res[i], st.NVariant, <<0, i>>),
                      !.NVariant = NextVariant(@)],
                   res, i + 1)

\* lines 2678-2681: the stems before the last one
RECURSIVE StemsLoop(_, _, _, _)
StemsLoop(lr, stems, nv, group) ==
    IF Len(stems) <= 1 THEN lr
    ELSE StemsLoop(addNorm(lr, Head(stems), nv, group), Tail(stems), nv, group)

\* lines 2676-2686: one group for every form of the last stem
RECURSIVE SubresLoop(_, _, _, _, _)
SubresLoop(st, stems, subres, v, k) ==
    IF k > Len(subres) THEN st
    ELSE SubresLoop([st EXCEPT
                       !.lres = addNorm(StemsLoop(@, stems, st.NVariant, <<v, k>>),
                                        subres[k], st.NVariant, <<v, k>>),
                       !.NVariant = NextVariant(@)],
                    stems, subres, v, k + 1)

\* lines 2666-2700: the SplitVar list
RECURSIVE VarLoop(_, _, _, _)
VarLoop(Cf, st, vs, v) ==
    IF v > Len(vs) THEN st
    ELSE
      LET stems == vs[v]
          subres == NormalizeSubWord(Cf, stems[Len(stems)], {FF_COMPOUNDLAST})
          st1 == [st EXCEPT !.maxforms = IF Len(subres) > @ THEN Len(subres)
                                         ELSE @]
      IN  VarLoop(Cf,
                  IF Len(stems) > 1 THEN SubresLoop(st1, stems, subres, v, 1)
                                    ELSE st,
                  vs, v + 1)

Top == stack[Len(stack)]
SetTop(f) == [stack EXCEPT ![Len(stack)] = f]

\* lines 2616-2618 and 2588-2590: the rest of the word is the last stem and
\* the list is returned
Finish(f) ==
    <<Append(f.var, SubSeq(word, f.startpos + 1, Len(word)))>> \o f.next

\* The innermost call returns res, to its caller or to NINormalizeWord.
ReturnStep(res) ==
    /\ stack' = Return(Conf, stack, word, res)
    /\ IF Len(stack) = 1
       THEN var' = res /\ npc' = "emit"
       ELSE UNCHANGED <<var, npc>>

\* NINormalizeWord up to the call of SplitToVariants
NormalizeStart ==
    /\ npc = "start"
    /\ LET res == NormalizeSubWord(Conf, word, {})
           st == RootsLoop([lres |-> <<>>, NVariant |-> 1], res, 1)
       IN  /\ lres' = st.lres
           /\ NVariant' = st.NVariant
           /\ maxforms' = Len(res)
    /\ IF Conf.usecompound
       THEN /\ stack' = <<NewFrame(Conf, word, <<>>, <<>>, 0, -1)>>
            /\ npc' = "split"
       ELSE /\ stack' = <<>>
            /\ npc' = "done"
    /\ UNCHANGED <<Conf, word, var, seglog>>

\* while (level < wordlen)
SplitLoop ==
    /\ npc = "split"
    /\ Top.pc = "loop"
    /\ IF Top.level < Len(word)
       THEN /\ stack' = SetTop([Top EXCEPT !.caff = 1, !.pc = "affix"])
            /\ UNCHANGED <<var, npc>>
       ELSE ReturnStep(Finish(Top))
    /\ UNCHANGED <<Conf, word, lres, NVariant, seglog, maxforms>>

\* One test of the inner while (lines 2497-2549) and, when it holds, its
\* body.  After a scan that did something undefined the call may go on with
\* the scan's result or be lost (the backend crashes on the read).
SplitCompoundAffix ==
    /\ npc = "split"
    /\ Top.pc = "affix"
    /\ LET f == Top
           r == CheckCompoundAffixes(Conf, f.caff,
                                     SubSeq(word, f.level + 1, Len(word)),
                                     f.node # <<>>)
           lenaff == f.level - f.startpos + r.ret
           buf == SubSeq(word, f.startpos + 1, f.startpos + lenaff)
           compoundflag == IF f.level = 0 THEN {FF_COMPOUNDBEGIN}
                           ELSE IF f.level = Len(word) - 1
                           THEN {FF_COMPOUNDLAST}
                           ELSE {FF_COMPOUNDMIDDLE}
           subres == NormalizeSubWord(Conf, buf, compoundflag)
           f1 == [f EXCEPT !.caff = r.ptr]
           toTrie == /\ stack' = SetTop([f EXCEPT !.pc = "trie"])
                     /\ UNCHANGED <<npc, seglog, maxforms>>
           goOn ==
               IF r.ret < 0 THEN toTrie
               ELSE IF \/ (f.startpos + lenaff - 1) \notin f.notprobed
                       \/ f.level + lenaff - 1 <= f.minpos
                       \/ lenaff >= MAXNORMLEN
               THEN /\ stack' = SetTop(f1)
                    /\ UNCHANGED <<npc, seglog, maxforms>>
               ELSE /\ seglog' = seglog \cup
                           {[startpos |-> f.startpos,
                             endpos |-> f.startpos + lenaff,
                             flag |-> compoundflag, from |-> "affix"]}
                    /\ maxforms' = IF Len(subres) > maxforms THEN Len(subres)
                                   ELSE maxforms
                    /\ UNCHANGED npc
                    /\ IF subres # <<>>
                       THEN stack' =
                              Append(SetTop([f1 EXCEPT
                                       !.notprobed = @ \ {f.startpos + lenaff - 1},
                                       !.pc = "call_affix"]),
                                     NewFrame(Conf, word, <<>>, f.var \o subres,
                                              f.startpos + lenaff,
                                              f.startpos + lenaff))
                       ELSE stack' = SetTop(f1)
       IN  IF f.level <= f.startpos THEN toTrie
           ELSE IF r.overrun \/ r.deref
           THEN \/ goOn
                \/ /\ npc' = "lost"
                   /\ UNCHANGED <<stack, seglog, maxforms>>
           ELSE goOn
    /\ UNCHANGED <<Conf, word, var, lres, NVariant>>

\* lines 2551-2613: one character down the word trie
SplitTrie ==
    /\ npc = "split"
    /\ Top.pc = "trie"
    /\ LET f == Top
           path == f.node[1] \o <<word[f.level + 1]>>
           found == HasEntry(Conf, path)
           isword == path \in DOMAIN Conf.Dictionary
           compoundflag == IF f.startpos = 0 THEN {FF_COMPOUNDBEGIN}
                           ELSE IF f.level = Len(word) - 1
                           THEN {FF_COMPOUNDLAST}
                           ELSE {FF_COMPOUNDMIDDLE}
           hit == /\ isword
                  /\ Conf.Dictionary[path].compoundflag \cap compoundflag # {}
                  /\ f.level \in f.notprobed
                  /\ f.level > f.minpos
       IN  IF f.node = <<>>
           THEN ReturnStep(Finish(f)) /\ UNCHANGED seglog
           ELSE /\ seglog' = IF isword
                             THEN seglog \cup
                                    {[startpos |-> f.startpos,
                                      endpos |-> f.level + 1,
                                      flag |-> compoundflag, from |-> "trie"]}
                             ELSE seglog
                /\ IF hit /\ Len(word) = f.level + 1
                   THEN ReturnStep(Finish(f))
                   ELSE IF hit
                   THEN /\ stack' = Append(SetTop([f EXCEPT !.pc = "call_trie"]),
                                           NewFrame(Conf, word, f.node, f.var,
                                                    f.startpos, f.level))
                        /\ UNCHANGED <<var, npc>>
                   ELSE /\ stack' = SetTop([f EXCEPT
                                      !.node = IF found THEN ChildNode(Conf, path)
                                               ELSE <<>>,
                                      !.level = @ + 1,
                                      !.pc = "loop"])
                        /\ UNCHANGED <<var, npc>>
    /\ UNCHANGED <<Conf, word, lres, NVariant, maxforms>>

\* NINormalizeWord after SplitToVariants returned
NormalizeEmit ==
    /\ npc = "emit"
    /\ LET st == VarLoop(Conf,
                         [lres |-> lres, NVariant |-> NVariant,
                          maxforms |-> maxforms],
                         var, 1)
       IN  /\ lres' = st.lres
           /\ NVariant' = st.NVariant
           /\ maxforms' = st.maxforms
    /\ npc' = "done"
    /\ UNCHANGED <<Conf, word, stack, var, seglog>>

NextNorm ==
    \/ NormalizeStart /\ UNCHANGED <<cachevars, impvars, numvars, spvars>>
    \/ SplitLoop /\ UNCHANGED <<cachevars, impvars, numvars, spvars>>
    \/ SplitCompoundAffix /\ UNCHANGED <<cachevars, impvars, numvars, spvars>>
    \/ SplitTrie /\ UNCHANGED <<cachevars, impvars, numvars, spvars>>
    \/ NormalizeEmit /\ UNCHANGED <<cachevars, impvars, numvars, spvars>>

SpecNorm == InitNorm /\ [][NextNorm]_vars


\* ---- claims about NINormalizeWord ----

\* the lexemes NINormalizeWord returns
Lexemes == {lres[i].lexeme : i \in 1..Len(lres)}

\* C11: a word longer than MAXNORMLEN bytes gets an empty result and is not
\* processed (no segment of it is looked up), with and without compound
\* usage.
C11_LongWordEmpty ==
    (npc = "done" /\ Len(word) > MAXNORMLEN) => (lres = <<>> /\ seglog = {})

\* C12: NINormalizeWord returns at most MAX_NORM lexemes, and neither the
\* forms array of NormalizeSubWord nor lres is written past its MAX_NORM
\* slots, the last written slot being the terminator.
C12_ArraysInBounds ==
    /\ maxforms <= MAX_NORM - 1
    /\ Len(lres) <= MAX_NORM - 1

\* a word with more forms than the array holds has been normalized: both
\* arrays are full
C12_Witness ==
    /\ npc = "done"
    /\ Conf.Affix # <<>>
    /\ maxforms = MAX_NORM - 1
    /\ Len(lres) = MAX_NORM - 1

ConditionHolds(Affix, w) ==
    IF Affix.issimple THEN TRUE
    ELSE IF Affix.isregis THEN w # <<>> /\ w[Len(w)] # "s"
    ELSE \/ \E i \in 1..Len(w) : w[i] # "s"
         \/ (w # <<>> /\ w[Len(w)] = "b")

\* the surface form the rule makes of the root: find is taken off and repl
\* is put in its place
ApplyAffix(Affix, w) ==
    IF Affix.type = FF_SUFFIX
    THEN SubSeq(w, 1, Len(w) - Len(Affix.find)) \o Affix.repl
    ELSE Affix.repl \o SubSeq(w, Len(Affix.find) + 1, Len(w))

\* C14: when the word is the surface form a rule (simple, regis or regex
\* condition) makes of a root that carries the rule's flag and satisfies its
\* condition, the root is among the returned lexemes.  (Roots that may
\* stand alone, rules that may be used outside compounds and surface forms
\* short enough to be normalized.)
C14_AffixedFormFindsRoot ==
    npc = "done" =>
        \A i \in 1..Len(Conf.Affix) : \A w \in DOMAIN Conf.Dictionary :
            LET Affix == Conf.Affix[i]
                root == Conf.Dictionary[w]
            IN  (/\ Affix.flag \in {root.affix[k] : k \in 1..Len(root.affix)}
                 /\ ConditionHolds(Affix, w)
                 /\ FF_COMPOUNDONLY \notin root.compoundflag
                 /\ FF_COMPOUNDONLY \notin Affix.flagflags
                 /\ Len(word) <= MAXNORMLEN
                 /\ word = ApplyAffix(Affix, w))
                    => w \in Lexemes

\* C15: two lexemes of the result have the same variant number exactly when
\* they come from the same group: each root found without splitting is a
\* group of its own, each segmentation of the word is one group; and
\* "football", with "foot" allowed at the beginning and "ball" at the end
\* of compounds, gives both with one number.
C15_VariantNumbers ==
    npc = "done" =>
        /\ \A i, j \in 1..Len(lres) :
              (lres[i].nvariant = lres[j].nvariant)
                  <=> (lres[i].group = lres[j].group)
        /\ (Conf = FootballConf /\ Len(word) = 8 /\ word[1] = "f") =>
              \E i, j \in 1..Len(lres) :
                  /\ lres[i].lexeme = SubSeq(word, 1, 4)
                  /\ lres[j].lexeme = SubSeq(word, 5, 8)
                  /\ lres[i].nvariant = lres[j].nvariant

\* "football" has been normalized and the result holds "foot" and "ball"
C15_Witness ==
    /\ npc = "done"
    /\ Conf = FootballConf
    /\ word = <<"f", "o", "o", "t", "b", "a", "l", "l">>
    /\ Lexemes = {SubSeq(word, 1, 4), SubSeq(word, 5, 8)}


\* C16: every candidate segment SplitToVariants looks up, found through the
\* compound affix list or by trie descent, is looked up with the flag of
\* its role: begin for the first segment, last for the one that ends the
\* word, middle otherwise.
C16_SegmentFlags ==
    \A e \in seglog :
        e.flag = IF e.startpos = 0 THEN {FF_COMPOUNDBEGIN}
                 ELSE IF e.endpos = Len(word) THEN {FF_COMPOUNDLAST}
                 ELSE {FF_COMPOUNDMIDDLE}


\* NINormalizeWord runs on its own: a step that can be taken is taken
SpecNormFair == SpecNorm /\ WF_vars(NextNorm)

\* C17: every call of NINormalizeWord returns.
C17_Terminates == <>(npc = "done")


(***************************************************************************)
(* NIImportAffixes: which format the affix file is read in.  A line is     *)
(* its kind: the command it starts with, as the function tells them apart. *)
(***************************************************************************)
MaxLines == 3          \* lines of an affix file

\* "compoundwords controlled z", "suffixes", "prefixes" and "flag *A:"
LegacyCommands == {"compoundwords", "suffixes", "prefixes", "flag"}

\* "FLAG long" or "FLAG num" (not a one-character flag), and the commands
\* compared with the line as written
NewCommands == {"FLAG", "COMPOUNDFLAG", "COMPOUNDMIN", "PFX", "SFX"}

\* the files: lines with these commands, comments ("#") and rules
\* "mask > repl" of a legacy section ("rule")
AffixFiles ==
    UNION {[1..n -> LegacyCommands \cup NewCommands \cup {"#", "rule"}] :
              n \in 0..MaxLines}

InitImport ==
    /\ CacheOff /\ NormOff /\ NumOff /\ SPOff
    /\ affile \in AffixFiles
    /\ apos = 0
    /\ oldformat = FALSE
    /\ section = "none"
    /\ naffix = 0
    /\ apc = "read"
    /\ pae = PaeOff

\* one pass of the while loop of NIImportAffixes, or its end at EOF
ImportLine ==
    /\ apc = "read"
    /\ IF apos = Len(affile)
       THEN /\ apc' = "done"
            /\ UNCHANGED <<apos, oldformat, section, naffix>>
       ELSE
         LET line == affile[apos + 1]
         IN  IF line = "#"
             THEN /\ apos' = apos + 1
                  /\ UNCHANGED <<oldformat, section, naffix, apc>>
             ELSE IF line \in LegacyCommands
             THEN /\ apos' = apos + 1
                  /\ oldformat' = TRUE
                  /\ section' = IF line \in {"suffixes", "prefixes"} THEN line
                                ELSE section
                  /\ UNCHANGED <<naffix, apc>>
             ELSE IF line \in NewCommands
             THEN \* isnewformat:
                  /\ apc' = IF oldformat THEN "error" ELSE "oo"
                  /\ UNCHANGED <<apos, oldformat, section, naffix>>
             ELSE /\ apos' = apos + 1
                  /\ naffix' = IF section = "none" THEN naffix ELSE naffix + 1
                  /\ UNCHANGED <<oldformat, section, apc>>
    /\ UNCHANGED affile

\* NIImportOOAffixes: the file is read again from its first line, twice;
\* lines that are no command of the new format are passed over
NIImportOOAffixes ==
    /\ apc = "oo"
    /\ apos' = Len(affile)
    /\ naffix' = Cardinality({i \in 1..Len(affile) :
                                 affile[i] \in {"PFX", "SFX"}})
    /\ apc' = "done"
    /\ UNCHANGED <<affile, oldformat, section>>

NextImport ==
    \/ ImportLine /\ UNCHANGED <<cachevars, normvars, numvars, spvars, pae>>
    \/ NIImportOOAffixes /\ UNCHANGED <<cachevars, normvars, numvars, spvars, pae>>

SpecImport == InitImport /\ [][NextImport]_vars

\* C18: an affix file that holds a legacy command and a new-format command,
\* in either order, is not imported: NIImportAffixes raises an error.
C18_MixedFormatsRaise ==
    (/\ \E i \in 1..Len(affile) : affile[i] \in LegacyCommands
     /\ \E i \in 1..Len(affile) : affile[i] \in NewCommands)
        => apc # "done"


(***************************************************************************)
(* Flags given as numbers (FLAG num): getNextFlagFromString and            *)
(* setCompoundAffixFlagValue.                                              *)
(***************************************************************************)
MaxDigits == 5         \* digits of a number in the strings tried

FLAGNUM_MAXSIZE == 65536
ERANGE == 34
\* the largest flag number of the file comment of spell.c
MaxFlagNumber == 65000

DigitValue(c) ==
    CASE c = "0" -> 0 [] c = "1" -> 1 [] c = "2" -> 2 [] c = "3" -> 3
      [] c = "4" -> 4 [] c = "5" -> 5 [] c = "6" -> 6 [] c = "7" -> 7
      [] c = "8" -> 8 [] c = "9" -> 9

t_isdigit(c) == c \in {"0", "1", "2", "3", "4", "5", "6", "7", "8", "9"}

\* strtol(s, &next, 10): white space, a sign, digits; next is the position
\* of the first character not taken (1 when nothing was converted)
strtol(s) ==
    LET RECURSIVE SpacesFrom(_)
        SpacesFrom(i) ==
            IF i <= Len(s) /\ s[i] = " " THEN 1 + SpacesFrom(i + 1) ELSE 0
        RECURSIVE DigitsFrom(_)
        DigitsFrom(i) ==
            IF i <= Len(s) /\ t_isdigit(s[i]) THEN 1 + DigitsFrom(i + 1) ELSE 0
        RECURSIVE DecimalValue(_)
        DecimalValue(ds) ==
            IF ds = <<>> THEN 0
            ELSE 10 * DecimalValue(SubSeq(ds, 1, Len(ds) - 1))
                   + DigitValue(ds[Len(ds)])
        sp == SpacesFrom(1)
        signed == sp + 1 <= Len(s) /\ s[sp + 1] \in {"-", "+"}
        first == IF signed THEN sp + 2 ELSE sp + 1
        n == DigitsFrom(first)
        v == DecimalValue(SubSeq(s, first, first + n - 1))
    IN  IF n = 0 THEN [val |-> 0, next |-> 1]
        ELSE [val |-> IF signed /\ s[sp + 1] = "-" THEN 0 - v ELSE v,
              next |-> first + n]

\* sprintf(sflag, "%0d", s) for s >= 0
RECURSIVE ToDecimal(_)
ToDecimal(n) ==
    LET DigitChar(d) ==
            <<"0", "1", "2", "3", "4", "5", "6", "7", "8", "9">>[d + 1]
    IN  IF n < 10 THEN <<DigitChar(n)>>
        ELSE Append(ToDecimal(n \div 10), DigitChar(n % 10))

\* the loop behind the number (lines 494-521): the position of the next
\* flag, or the error
RECURSIVE NextFlagStart(_, _, _)
NextFlagStart(s, i, met_comma) ==
    IF i > Len(s) THEN [err |-> "", next |-> i]
    ELSE IF t_isdigit(s[i])
    THEN IF ~met_comma THEN [err |-> "invalid affix flag", next |-> i]
         ELSE [err |-> "", next |-> i]
    ELSE IF s[i] = ","
    THEN IF met_comma THEN [err |-> "invalid affix flag", next |-> i]
         ELSE NextFlagStart(s, i + 1, TRUE)
    ELSE IF s[i] # " "
    THEN [err |-> "invalid character in affix flag", next |-> i]
    ELSE NextFlagStart(s, i + 1, met_comma)

Raised(fn, msg) == [fn |-> fn, err |-> msg, sflag |-> <<>>, rest |-> <<>>, i |-> 0]

\* getNextFlagFromString: the flag in sflag and what is left in *sflagset,
\* or the error
getNextFlagFromString(mode, s, en) ==
    LET fn == "getNextFlagFromString"
        r == strtol(s)
        after == NextFlagStart(s, r.next, FALSE)
    IN  IF s = <<>>
        THEN IF mode = "FM_LONG"
             THEN Raised(fn, "invalid affix flag with long flag value")
             ELSE [fn |-> fn, err |-> "", sflag |-> <<>>, rest |-> <<>>, i |-> 0]
        ELSE IF mode = "FM_CHAR"
        THEN [fn |-> fn, err |-> "", sflag |-> <<s[1]>>, rest |-> Tail(s),
              i |-> 0]
        ELSE IF mode = "FM_LONG"
        THEN IF Len(s) < 2
             THEN Raised(fn, "invalid affix flag with long flag value")
             ELSE [fn |-> fn, err |-> "", sflag |-> SubSeq(s, 1, 2),
                   rest |-> SubSeq(s, 3, Len(s)), i |-> 0]
        ELSE IF r.next = 1 \/ en = ERANGE THEN Raised(fn, "invalid affix flag")
        ELSE IF r.val < 0 \/ r.val > FLAGNUM_MAXSIZE
        THEN Raised(fn, "out of range")
        ELSE IF after.err # "" THEN Raised(fn, after.err)
        ELSE [fn |-> fn, err |-> "", sflag |-> ToDecimal(r.val),
              rest |-> SubSeq(s, after.next, Len(s)), i |-> r.val]

\* setCompoundAffixFlagValue: entry->flag (i for FM_NUM, else a copy of s),
\* or the error
setCompoundAffixFlagValue(mode, s, en) ==
    LET fn == "setCompoundAffixFlagValue"
        r == strtol(s)
    IN  IF mode # "FM_NUM"
        THEN [fn |-> fn, err |-> "", sflag |-> s, rest |-> <<>>, i |-> 0]
        ELSE IF r.next = 1 \/ en = ERANGE THEN Raised(fn, "invalid affix flag")
        ELSE IF r.val < 0 \/ r.val > FLAGNUM_MAXSIZE
        THEN Raised(fn, "out of range")
        ELSE [fn |-> fn, err |-> "", sflag |-> <<>>, rest |-> <<>>,
              i |-> r.val]

\* the strings tried: a sign or none, up to MaxDigits digits, and what
\* follows the number
FlagStrings ==
    {sign \o ds \o rest :
        sign \in {<<>>, <<"-">>},
        ds \in UNION {[1..n -> {"0", "3", "5", "6", "7"}] : n \in 0..MaxDigits},
        rest \in {<<>>, <<",", "3">>, <<" ", "3">>, <<",", ",">>, <<"x">>}}

InitNum ==
    /\ CacheOff /\ NormOff /\ ImpOff /\ SPOff
    /\ flagmode \in {"FM_CHAR", "FM_LONG", "FM_NUM"}
    /\ flagstr \in FlagStrings
    /\ errno \in {0, ERANGE}
    /\ fout = Raised("", "")
    /\ fpc = "in"

CallGetNextFlag ==
    /\ fpc = "in"
    /\ fout' = getNextFlagFromString(flagmode, flagstr, errno)
    /\ fpc' = "out"
    /\ UNCHANGED <<flagmode, flagstr, errno>>

CallSetCompoundAffixFlagValue ==
    /\ fpc = "in"
    /\ fout' = setCompoundAffixFlagValue(flagmode, flagstr, errno)
    /\ fpc' = "out"
    /\ UNCHANGED <<flagmode, flagstr, errno>>

NextNum ==
    \/ CallGetNextFlag /\ UNCHANGED <<cachevars, normvars, impvars, spvars>>
    \/ CallSetCompoundAffixFlagValue
         /\ UNCHANGED <<cachevars, normvars, impvars, spvars>>

SpecNum == InitNum /\ [][NextNum]_vars

\* C19: with FLAG num, a flag number below 0 or above 65000 makes
\* getNextFlagFromString and setCompoundAffixFlagValue raise an error.
C19_FlagNumberRange ==
    (/\ fpc = "out"
     /\ flagmode = "FM_NUM"
     /\ strtol(flagstr).next > 1
     /\ (strtol(flagstr).val < 0 \/ strtol(flagstr).val > MaxFlagNumber))
        => fout.err # ""


(***************************************************************************)
(* mkSPNode: the entries of the .dict file that spell the same word are    *)
(* put into one SPNodeData slot, one after the other.                      *)
(***************************************************************************)
MaxHomonyms == 3       \* entries of the .dict file with the same word

\* the flag sets an entry may carry, in the order of cmpspellaffix
HomonymFlagSets == <<<<>>, <<"C">>, <<"O">>, <<"S">>>>

\* MergeAffix: the index of the merged flag set and AffixData after it
MergeAffix(AD, a1, a2) ==
    IF AD[a1 + 1] = <<>> THEN [AffixData |-> AD, affix |-> a2]
    ELSE IF AD[a2 + 1] = <<>> THEN [AffixData |-> AD, affix |-> a1]
    ELSE [AffixData |-> Append(AD, AD[a1 + 1] \o AD[a2 + 1]),
          affix |-> Len(AD)]

\* NISortDictionary left one AffixData entry for every flag set in use and
\* the entries of the word in any order (qsort by the word alone); the slot
\* is in memory NIAllocateNode did not clear, so it may hold anything.
InitSP ==
    /\ CacheOff /\ NormOff /\ ImpOff /\ NumOff /\ DictOff
    /\ \E n \in 1..MaxHomonyms :
         \E fs \in [1..n -> 1..Len(HomonymFlagSets)] :
            LET used == {fs[i] : i \in 1..n}
                index(k) == Cardinality({j \in used : j < k})
            IN  /\ AffixData = SelectSeq(HomonymFlagSets,
                                   LAMBDA x : \E j \in used :
                                                 HomonymFlagSets[j] = x)
                /\ Spell = [i \in 1..n |-> index(fs[i])]
    /\ spos = 0
    /\ data \in [isword : BOOLEAN,
                 affix : 0..(Len(AffixData) - 1),
                 compoundflag : {{}, {FF_COMPOUNDONLY} \cup FF_COMPOUNDFLAG}]

\* lines 1783-1815 for the entry Spell[i] of the word
mkSPNodeWord ==
    /\ spos < Len(Spell)
    /\ LET flags == CompoundAffixFlags(TRUE)
           a == Spell[spos + 1]
           merge == data.isword /\ data.affix # a
           clearCompoundOnly ==
               /\ merge
               /\ ~(/\ FF_COMPOUNDONLY \in data.compoundflag
                    /\ FF_COMPOUNDONLY \in
                           makeCompoundFlags(flags, AffixData[a + 1]))
           m == IF merge THEN MergeAffix(AffixData, data.affix, a)
                ELSE [AffixData |-> AffixData, affix |-> a]
       IN  /\ AffixData' = m.AffixData
           /\ data' = [isword |-> TRUE,
                       affix |-> m.affix,
                       compoundflag |->
                           SPNodeCompoundFlag(flags, m.AffixData[m.affix + 1],
                                              clearCompoundOnly)]
    /\ spos' = spos + 1
    /\ UNCHANGED <<Spell, dictvars>>

NextSP ==
    \/ mkSPNodeWord /\ UNCHANGED <<cachevars, normvars, impvars, numvars>>

SpecSP == InitSP /\ [][NextSP]_vars

\* C20: when all entries of a word are in the slot, FF_COMPOUNDONLY is set
\* in its compoundflag only if every one of the entries is compound-only,
\* in whatever order they came and also when some have the same or an empty
\* flag set.
C20_CompoundOnlyOfHomonyms ==
    (spos = Len(Spell) /\ spos > 0 /\ FF_COMPOUNDONLY \in data.compoundflag)
        => \A i \in 1..Len(Spell) :
              FF_COMPOUNDONLY \in
                  makeCompoundFlags(CompoundAffixFlags(TRUE),
                                    AffixData[Spell[i] + 1])

(***************************************************************************)
(* NISortDictionary: the entries of the .dict file get their index into    *)
(* AffixData and are sorted by the word; mkSPNode builds the word trie in  *)
(* the DictNodes array.                                                    *)
(***************************************************************************)
MaxSpell == 3          \* entries of the .dict file

SPNHDRSZ == 4
SizeOfSPNodeData == 8
NodesReserve == 8
\* 0xFFFFFFFF, read as a 32-bit two's complement number
ISPELL_INVALID_OFFSET == -1

\* strcmp: the strings are compared byte by byte, the bytes as unsigned char
RECURSIVE strcmp(_, _)
strcmp(a, b) ==
    IF a = <<>> /\ b = <<>> THEN 0
    ELSE IF a = <<>> THEN -1
    ELSE IF b = <<>> THEN 1
    ELSE IF a[1] < b[1] THEN -1
    ELSE IF a[1] > b[1] THEN 1
    ELSE strcmp(Tail(a), Tail(b))

\* cmpspell: the entries are compared by the word alone
cmpspell(s1, s2) == strcmp(s1.word, s2.word)

\* NIAllocateNode for a node of length entries: the array after it, the
\* offset of the node, and whether repalloc was called.  The bytes of the
\* node are not written.
NIAllocateNode(st, length) ==
    LET size == SPNHDRSZ + length * SizeOfSPNodeData
        grow == st.NodesSize # 0 /\ st.NodesEnd + size >= st.NodesSize
        NodesSize ==
            IF st.NodesSize = 0 THEN size * NodesReserve
            ELSE IF grow
            THEN (IF st.NodesSize * 2 > st.NodesSize + size
                  THEN st.NodesSize * 2 ELSE st.NodesSize + size)
            ELSE st.NodesSize
    IN  [st |-> [st EXCEPT !.NodesSize = NodesSize,
                           !.NodesEnd = st.NodesEnd + size],
         node_offset |-> st.NodesEnd,
         repalloc |-> grow]

\* AffixDataGet(ConfBuild, i) is inside the table
InAffixData(AD, i) == i \in 0..(Len(AD) - 1)

\* mkSPNode, lines 1783-1815: the entry of Spell with index a into AffixData
\* ends at the slot d.  A read of AffixData outside the table is undefined:
\* it is recorded in oob.
mkSPNodeLeaf(st, d, a) ==
    LET flags == CompoundAffixFlags(TRUE)
        AD == st.AffixData
        merge == d.isword /\ d.affix # a
    IN  IF ~InAffixData(AD, a) \/ (merge /\ ~InAffixData(AD, d.affix))
        THEN [st |-> [st EXCEPT !.oob = TRUE],
              data |-> [d EXCEPT !.isword = TRUE, !.affix = a]]
        ELSE
          LET clearCompoundOnly ==
                  /\ merge
                  /\ ~(/\ FF_COMPOUNDONLY \in d.compoundflag
                       /\ FF_COMPOUNDONLY \in
                              makeCompoundFlags(flags, AD[a + 1]))
              m == IF merge THEN MergeAffix(AD, d.affix, a)
                   ELSE [AffixData |-> AD, affix |-> a]
          IN  [st |-> [st EXCEPT !.AffixData = m.AffixData],
               data |-> [d EXCEPT
                           !.isword = TRUE,
                           !.affix = m.affix,
                           !.compoundflag =
                               SPNodeCompoundFlag(flags,
                                                  m.AffixData[m.affix + 1],
                                                  clearCompoundOnly)]]

\* mkSPNode(ConfBuild, low, high, level) over the sorted array Sp.  st holds
\* AffixData and the DictNodes array; the node is named by its offset.  The
\* memory of a node is not cleared: every slot starts as g.  data points
\* into the array: when a call for the next level has made NIAllocateNode
\* move the array (moves), what this call writes through data afterwards
\* goes to the memory that was freed and is missing from the array (stale).
\* own is the node as this call sees it through data.
RECURSIVE mkSPNode(_, _, _, _, _, _, _)
RECURSIVE mkSPNodeLoop(_, _, _, _, _, _, _)
mkSPNodeLoop(Sp, g, moves, level, high, rs_offset, f) ==
    IF f.i >= high
    THEN
      LET r == mkSPNode(Sp, g, moves, f.st, f.lownew, high, level + 1)
          stale == f.stale \/ (moves /\ r.repalloc)
          own == [f.own EXCEPT ![f.k].node_offset = r.node_offset]
      IN  [st |-> IF stale THEN r.st
                  ELSE [r.st EXCEPT !.Nodes[rs_offset].data = own],
           repalloc |-> f.repalloc \/ r.repalloc]
    ELSE IF Sp[f.i + 1].len <= level
    THEN mkSPNodeLoop(Sp, g, moves, level, high, rs_offset,
                      [f EXCEPT !.i = @ + 1])
    ELSE
      LET e == Sp[f.i + 1]
          c == e.word[level + 1]
          next == f.lastchar # c /\ f.lastchar # 0
          r == IF next
               THEN mkSPNode(Sp, g, moves, f.st, f.lownew, f.i, level + 1)
               ELSE [st |-> f.st, node_offset |-> ISPELL_INVALID_OFFSET,
                     repalloc |-> FALSE]
          stale == f.stale \/ (moves /\ r.repalloc)
          k == IF next THEN f.k + 1 ELSE f.k
          own1 == IF next
                  THEN [f.own EXCEPT ![f.k].node_offset = r.node_offset]
                  ELSE f.own
          own2 == [own1 EXCEPT ![k].val = c]
          leaf == IF e.len = level + 1
                  THEN mkSPNodeLeaf(r.st, own2[k], e.affix)
                  ELSE [st |-> r.st, data |-> own2[k]]
          own3 == [own2 EXCEPT ![k] = leaf.data]
      IN  mkSPNodeLoop(Sp, g, moves, level, high, rs_offset,
              [st |-> IF stale THEN leaf.st
                      ELSE [leaf.st EXCEPT !.Nodes[rs_offset].data = own3],
               i |-> f.i + 1,
               lownew |-> IF next THEN f.i ELSE f.lownew,
               lastchar |-> c,
               k |-> k,
               own |-> own3,
               stale |-> stale,
               repalloc |-> f.repalloc \/ r.repalloc])

mkSPNode(Sp, g, moves, st, low, high, level) ==
    LET RECURSIVE Count(_, _)
        Count(i, lastchar) ==
            IF i >= high THEN 0
            ELSE IF /\ Sp[i + 1].len > level
                    /\ lastchar # Sp[i + 1].word[level + 1]
            THEN 1 + Count(i + 1, Sp[i + 1].word[level + 1])
            ELSE Count(i + 1, lastchar)
        nchar == Count(low, 0)
    IN  IF nchar = 0
        THEN [st |-> st, node_offset |-> ISPELL_INVALID_OFFSET,
              repalloc |-> FALSE]
        ELSE
          LET al == NIAllocateNode(st, nchar)
              own == [k \in 1..nchar |-> g]
              r == mkSPNodeLoop(Sp, g, moves, level, high, al.node_offset,
                       [st |-> [al.st EXCEPT !.Nodes =
                                   (al.node_offset :>
                                       [length |-> nchar, data |-> own]) @@ @],
                        i |-> low, lownew |-> low, lastchar |-> 0, k |-> 1,
                        own |-> own, stale |-> FALSE, repalloc |-> FALSE])
          IN  [st |-> r.st, node_offset |-> al.node_offset,
               repalloc |-> al.repalloc \/ r.repalloc]

\* What NISortDictionary leaves when it raises msg
DictRaised(CB, msg) ==
    [err |-> msg, AffixData |-> CB.AffixData, Spell |-> <<>>,
     Nodes |-> [o \in {} |-> 0], Dictionary |-> ISPELL_INVALID_OFFSET,
     lost |-> FALSE]

\* NISortDictionary.  order is the order qsort with cmpspell leaves the
\* entries in, g the bytes found in memory that was not cleared, moves
\* whether repalloc moves the DictNodes array.  Without flag aliases the
\* flag fields are sorted by cmpspellaffix first, and AffixData gets one
\* entry for each different flag field, in that order (HomonymFlagSets
\* lists the flag fields in the order of strcmp).  lost: AffixData was read
\* outside the table, the outcome is undefined.
NISortDictionary(CB, order, g, moves) ==
    LET n == Len(CB.Spell)
        flag(i) == CB.Spell[i].flag
        AD == IF CB.useFlagAliases THEN CB.AffixData
              ELSE SelectSeq(HomonymFlagSets,
                             LAMBDA x : \E i \in 1..n : flag(i) = x)
        curaffix(i) ==
            IF CB.useFlagAliases
            THEN (IF flag(i) # <<>> THEN strtol(flag(i)).val ELSE 0)
            ELSE (CHOOSE k \in 1..Len(AD) : AD[k] = flag(i)) - 1
        Sp == [j \in 1..n |->
                 [word |-> CB.Spell[order[j]].word,
                  affix |-> curaffix(order[j]),
                  len |-> Len(CB.Spell[order[j]].word)]]
        r == mkSPNode(Sp, g, moves,
                      [AffixData |-> AD, Nodes |-> [o \in {} |-> 0],
                       NodesSize |-> 0, NodesEnd |-> 0, oob |-> FALSE],
                      0, n, 0)
    IN  IF /\ CB.useFlagAliases
           /\ \E i \in 1..n :
                 /\ flag(i) # <<>>
                 /\ (strtol(flag(i)).next = 1 \/ CB.errno = ERANGE)
        THEN DictRaised(CB, "invalid affix alias")
        ELSE [err |-> "", AffixData |-> r.st.AffixData, Spell |-> Sp,
              Nodes |-> r.st.Nodes, Dictionary |-> r.node_offset,
              lost |-> r.st.oob]

\* getAffixFlagSet: the flag set returned (set), or the error raised; oob
\* when the set is read from AffixData outside the table.
getAffixFlagSet(CB, s) ==
    IF CB.useFlagAliases /\ s # <<>>
    THEN
      LET curaffix == strtol(s).val
      IN  IF strtol(s).next = 1 \/ CB.errno = ERANGE
          THEN [err |-> "invalid affix alias", curaffix |-> 0,
                set |-> <<>>, oob |-> FALSE]
          ELSE IF curaffix > 0 /\ curaffix <= Len(CB.AffixData)
          THEN [err |-> "", curaffix |-> curaffix,
                set |-> IF InAffixData(CB.AffixData, curaffix)
                        THEN CB.AffixData[curaffix + 1] ELSE <<>>,
                oob |-> ~InAffixData(CB.AffixData, curaffix)]
          ELSE [err |-> "", curaffix |-> 0, set |-> <<>>, oob |-> FALSE]
    ELSE [err |-> "", curaffix |-> 0, set |-> s, oob |-> FALSE]

\* ---- the .dict and .affix files NISortDictionary is run with ----

\* the words: a + a-umlaut (0xE4) and aaaaaaaa, as bytes
DictWords == {<<97, 228>>, [i \in 1..8 |-> 97]}

\* the flag fields of a .dict file without aliases
DictFlags == {<<>>, <<"O">>, <<"S">>}

\* the flag fields of a .dict file that uses the aliases of AliasTable
AliasFlags == {<<>>, <<"1">>, <<"2">>}

\* NIImportOOAffixes without the empty flag set in front of the aliases
AliasTableNoEmpty == <<<<"O">>>>

\* AffixData after NIImportOOAffixes read "AF 1" and "AF O": the empty flag
\* set it adds itself, then the alias
AliasTable == <<<<>>, <<"O">>>>

\* what memory that was not cleared may hold in the place of a slot
Uncleared ==
    {[val |-> 0, isword |-> FALSE, affix |-> 0, compoundflag |-> {},
      node_offset |-> 0],
     [val |-> 255, isword |-> TRUE, affix |-> 0,
      compoundflag |-> FF_COMPOUNDFLAGMASK, node_offset |-> ISPELL_INVALID_OFFSET]}

\* the orders qsort may leave Sp in: sorted by cmpspell, entries with the
\* same word in any order
SortedOrders(S) ==
    {o \in [1..Len(S) -> 1..Len(S)] :
        /\ \A i, j \in 1..Len(S) : i # j => o[i] # o[j]
        /\ \A i \in 1..(Len(S) - 1) : cmpspell(S[o[i]], S[o[i + 1]]) <= 0}

InitDict ==
    /\ CacheOff /\ NormOff /\ ImpOff /\ NumOff
    /\ AffixData = <<>> /\ Spell = <<>> /\ spos = 0
    /\ data = [isword |-> FALSE, affix |-> 0, compoundflag |-> {}]
    /\ \E alias \in BOOLEAN, n \in 1..MaxSpell :
         \E S \in [1..n -> [word : DictWords,
                            flag : IF alias THEN AliasFlags
                                   ELSE DictFlags]] :
            \E en \in IF alias THEN {0, ERANGE} ELSE {0} :
               ConfBuild = [useFlagAliases |-> alias, Spell |-> S,
                            AffixData |-> IF alias THEN AliasTable ELSE <<>>,
                            errno |-> en]
    /\ compiled = <<>>
    /\ aout = <<>>

\* dispell_build compiles the resources: NISortDictionary over the imported
\* files; a second build of the same resources compiles them again
CallNISortDictionary ==
    /\ Len(compiled) < 2
    /\ aout = <<>>
    /\ \E order \in SortedOrders(ConfBuild.Spell), g \in Uncleared,
          moves \in BOOLEAN :
          compiled' = Append(compiled,
                             NISortDictionary(ConfBuild, order, g, moves))
    /\ UNCHANGED <<AffixData, Spell, spos, data, ConfBuild, aout>>

\* NIImportOOAffixes resolves the flag field s of a PFX or SFX line
CallGetAffixFlagSet ==
    /\ compiled = <<>>
    /\ aout = <<>>
    /\ \E s \in AliasFlags \cup {<<"x">>} :
          aout' = <<getAffixFlagSet(ConfBuild, s)>>
    /\ UNCHANGED <<AffixData, Spell, spos, data, ConfBuild, compiled>>

NextDict ==
    \/ CallNISortDictionary /\ UNCHANGED <<cachevars, normvars, impvars, numvars>>
    \/ CallGetAffixFlagSet /\ UNCHANGED <<cachevars, normvars, impvars, numvars>>

SpecDict == InitDict /\ [][NextDict]_vars

\* ---- claims about NISortDictionary ----

\* the runs of NISortDictionary that did not raise
Built == {k \in 1..Len(compiled) : compiled[k].err = ""}

Strips(w, type) ==
    {<<A, CheckAffix(w, A, {}, IF type = FF_SUFFIX
                               THEN Len(w) - Len(A.repl) ELSE NoBaselen)[1]>> :
        A \in {Conf.Affix[i] :
                 i \in {k \in 1..Len(Conf.Affix) :
                          /\ Conf.Affix[k].type = type
                          /\ Conf.Affix[k].issimple
                          /\ FF_COMPOUNDONLY \notin Conf.Affix[k].flagflags
                          /\ IF type = FF_SUFFIX
                             THEN IsSuffixOf(Conf.Affix[k].repl, w)
                             ELSE IsPrefixOf(Conf.Affix[k].repl, w)}}}

\* the prefix rules that go on a word left by the suffix rule S, with what
\* they leave of it
StripsAfter(y, S) ==
    {p \in Strips(y, FF_PREFIX) :
        Len(word) - Len(S.repl) + Len(p[1].find) > Len(p[1].repl)}

\* x is a word of the dictionary that may stand alone
PlainWord(x) ==
    /\ x \in DOMAIN Conf.Dictionary
    /\ FF_COMPOUNDONLY \notin Conf.Dictionary[x].compoundflag

HasFlag(x, f) ==
    \E k \in 1..Len(Conf.Dictionary[x].affix) : Conf.Dictionary[x].affix[k] = f

\* C22: a root got by stripping a suffix and then a prefix is accepted
\* without a flag check exactly when both rules have FF_CROSSPRODUCT; when
\* one of them has not, it is accepted only if the flag set of the root
\* holds the flag of the prefix rule.  (Dictionaries without compounds: the
\* result is that of NormalizeSubWord; a root in the result has one of the
\* four derivations, and a root of two cross-product rules is in the result
\* whatever its flags, unless the forms array is full.)
C22_CrossProduct ==
    (npc = "done" /\ ~Conf.usecompound /\ Len(word) <= MAXNORMLEN) =>
        /\ \A x \in Lexemes :
              /\ PlainWord(x)
              /\ \/ x = word
                 \/ \E p \in Strips(word, FF_PREFIX) :
                       p[2] = x /\ HasFlag(x, p[1].flag)
                 \/ \E s \in Strips(word, FF_SUFFIX) :
                       \/ s[2] = x /\ HasFlag(x, s[1].flag)
                       \/ \E p \in StripsAfter(s[2], s[1]) :
                             /\ p[2] = x
                             /\ \/ FF_CROSSPRODUCT \in
                                      s[1].flagflags \cap p[1].flagflags
                                \/ HasFlag(x, p[1].flag)
        /\ \A s \in Strips(word, FF_SUFFIX) :
              \A p \in StripsAfter(s[2], s[1]) :
                 (/\ FF_CROSSPRODUCT \in s[1].flagflags \cap p[1].flagflags
                  /\ PlainWord(p[2])
                  /\ maxforms < MAX_NORM - 1)
                     => p[2] \in Lexemes

\* "bas" was normalized with the rules s (suffix) and b (prefix), both
\* cross-product, and the root "a" that has no flag at all was accepted
C22_Witness ==
    /\ npc = "done" /\ ~Conf.usecompound
    /\ word = <<"b", "a", "s">>
    /\ <<"a">> \in DOMAIN Conf.Dictionary
    /\ Conf.Dictionary[<<"a">>].affix = <<>>
    /\ \E s \in Strips(word, FF_SUFFIX) :
          \E p \in StripsAfter(s[2], s[1]) :
             /\ FF_CROSSPRODUCT \in s[1].flagflags \cap p[1].flagflags
             /\ p[2] = <<"a">>
    /\ <<"a">> \in Lexemes

\* FindWord, lines 711-753, on the trie of R: the entry at which the descent
\* for w ends when it is the entry of a word, as a sequence of length 1;
\* <<>> when the search for a byte fails, the trie ends, or the entry
\* reached is not the entry of a word.  An offset that is no offset of a
\* node leaves the array: the entry read there is anything (wild).
SPNodeFind(R, w) ==
    LET RECURSIVE Search(_, _, _, _)
        Search(nd, c, StopLow, StopHigh) ==
            IF StopLow >= StopHigh THEN 0
            ELSE LET StopMiddle == StopLow + ((StopHigh - StopLow) \div 2)
                 IN  IF nd[StopMiddle + 1].val = c THEN StopMiddle + 1
                     ELSE IF nd[StopMiddle + 1].val < c
                     THEN Search(nd, c, StopMiddle + 1, StopHigh)
                     ELSE Search(nd, c, StopLow, StopMiddle)
        RECURSIVE Descend(_, _)
        Descend(node, i) ==
            IF node = ISPELL_INVALID_OFFSET \/ i > Len(w) THEN <<>>
            ELSE IF node \notin DOMAIN R.Nodes THEN <<[wild |-> TRUE]>>
            ELSE LET nd == R.Nodes[node].data
                     k == Search(nd, w[i], 0, R.Nodes[node].length)
                 IN  IF k = 0 THEN <<>>
                     ELSE IF i = Len(w) /\ nd[k].isword THEN <<nd[k]>>
                     ELSE Descend(nd[k].node_offset, i + 1)
    IN  Descend(R.Dictionary, 1)

\* The IspellDict of a run of NISortDictionary, without affix rules: what
\* FindWord finds for the words of the .dict file
CompiledDict(R) ==
    [usecompound |-> TRUE,
     Dictionary |->
         [w \in {x \in DictWords :
                   /\ SPNodeFind(R, x) \notin {<<>>, <<[wild |-> TRUE]>>}
                   /\ InAffixData(R.AffixData, SPNodeFind(R, x)[1].affix)} |->
             [affix |-> R.AffixData[SPNodeFind(R, w)[1].affix + 1],
              compoundflag |-> SPNodeFind(R, w)[1].compoundflag]],
     Affix |-> <<>>,
     CompoundAffix |-> <<>>]

\* C23: two runs of NISortDictionary over the same files give dictionaries
\* that normalize every word alike, whatever order qsort gives the entries
\* of one word.
C23_CompileDeterministic ==
    (Len(compiled) = 2 /\ Built = {1, 2}
        /\ ~compiled[1].lost /\ ~compiled[2].lost) =>
        \A w \in DictWords :
            NormalizeSubWord(CompiledDict(compiled[1]), w, {})
                = NormalizeSubWord(CompiledDict(compiled[2]), w, {})

\* C26: every node of the trie mkSPNode built has at least one entry, the
\* key bytes of its entries are strictly increasing as unsigned bytes, and
\* the entry reached by the bytes of a prefix of a word has the absence
\* marker as its node exactly when no word goes on after the prefix.
C26_SortedNodes ==
    \A r \in Built :
       LET R == compiled[r]
           words == {R.Spell[i].word : i \in 1..Len(R.Spell)}
           RECURSIVE EntryAt(_, _, _)
           EntryAt(node, p, i) ==
               IF node \notin DOMAIN R.Nodes THEN <<>>
               ELSE LET nd == R.Nodes[node].data
                        ks == {k \in 1..Len(nd) : nd[k].val = p[i]}
                    IN  IF ks = {} THEN <<>>
                        ELSE IF i = Len(p) THEN <<nd[CHOOSE k \in ks : TRUE]>>
                        ELSE EntryAt(nd[CHOOSE k \in ks : TRUE].node_offset,
                                     p, i + 1)
       IN  /\ \A o \in DOMAIN R.Nodes :
                /\ R.Nodes[o].length >= 1
                /\ \A k \in 1..(R.Nodes[o].length - 1) :
                      R.Nodes[o].data[k].val < R.Nodes[o].data[k + 1].val
           /\ \A w \in words : \A n \in 1..Len(w) :
                LET p == SubSeq(w, 1, n)
                    e == EntryAt(R.Dictionary, p, 1)
                IN  /\ e # <<>>
                    /\ (e[1].node_offset = ISPELL_INVALID_OFFSET)
                          <=> ~\E x \in words : Len(x) > n /\ IsPrefixOf(p, x)

\* ---- claims about ts_dict_shared_location with an invalid dictionary id ----

\* C24: every step of a ts_dict_shared_location call with an invalid
\* dictionary id leaves the entries of the table, their refcounts, the cache
\* file and the shared builds as they are, and the call ends only in the
\* one step that runs allocate_cb, with the private dictionary (or with the
\* error allocate_cb raised).  (A backend that waits for the lock of
\* init_dict_table is moved on by the backend that releases it: that step is
\* the other backend's.)
C24_InvalidIdBuildsPrivately ==
    [][\A p \in Procs :
          (/\ arg[p] = InvalidOid
           /\ pc[p] \notin {"idle", "init_wait"}
           /\ pc'[p] # pc[p])
              => /\ table' = table
                 /\ file' = file
                 /\ held' = held
                 /\ nbuild' = nbuild
                 /\ pc'[p] = "idle" =>
                       /\ pc[p] = "private_build"
                       /\ ret'[p].kind \in {"private", "error"}
                       /\ ret'[p].kind = "error" => ret'[p].err = "build"]_vars

\* a call with an invalid id has returned the private dictionary while the
\* table holds an entry that another call published
C24_Witness ==
    \E p \in Procs :
       /\ pc[p] = "idle"
       /\ ret[p] = [kind |-> "private", err |-> "", path |-> "invalid"]
       /\ ctl_handle # NULL
       /\ \E t \in Tables : table[t].present

\* C25: in the list NormalizeSubWord returns no two neighbours are the same
\* string, and a root that two suffix rules give, with another root found
\* between them, is in the list twice (unless the array was full before).
\* lres holds the list from the return of NormalizeSubWord up to the first
\* variant of a compound.
C25_AdjacentOnlyDedup ==
    (npc = "split" \/ (npc = "done" /\ ~Conf.usecompound)) =>
        /\ \A k \in 1..(Len(lres) - 1) : lres[k].lexeme # lres[k + 1].lexeme
        /\ \A i, j \in 1..Len(Conf.Affix) :
              LET Si == Conf.Affix[i]
                  Sj == Conf.Affix[j]
                  x == SubSeq(word, 1, Len(word) - Len(Si.repl)) \o Si.find
              IN  (/\ i < j
                   /\ <<Si, x>> \in Strips(word, FF_SUFFIX)
                   /\ <<Sj, x>> \in Strips(word, FF_SUFFIX)
                   /\ PlainWord(x)
                   /\ HasFlag(x, Si.flag) /\ HasFlag(x, Sj.flag)
                   /\ \E p \in StripsAfter(x, Si) :
                         /\ p[2] # x
                         /\ PlainWord(p[2])
                         /\ HasFlag(p[2], p[1].flag))
                      => \/ Cardinality({k \in 1..Len(lres) :
                                            lres[k].lexeme = x}) >= 2
                         \/ Len(lres) = MAX_NORM - 1

\* "bas" with two rules for the suffix s and the prefix rule b gave ba, a,
\* ba, a
C25_Witness ==
    /\ npc = "done" /\ ~Conf.usecompound
    /\ word = <<"b", "a", "s">>
    /\ [k \in 1..Len(lres) |-> lres[k].lexeme]
           = <<<<"b", "a">>, <<"a">>, <<"b", "a">>, <<"a">>>>


\* ---------------------------------------------------------------------
\* parse_affentry (spell.c): one entry "<mask> > [-<find>,]<replace>" of
\* an affix file of the Ispell format, read character by character
\* ---------------------------------------------------------------------
MaxLine == 6

PAE_WAIT_MASK == 0
PAE_INMASK == 1
PAE_WAIT_FIND == 2
PAE_INFIND == 3
PAE_WAIT_REPL == 4
PAE_INREPL == 5

\* the characters of the lines: a letter, a blank, the delimiters of the
\* format, the comment sign and the apostrophe
PaeChars == {"a", " ", ">", "-", ",", "#", "'"}
PaeLines == UNION {[1..n -> PaeChars] : n \in 0..MaxLine}

t_isspace(c) == c = " "

t_isalphaOrQuote(c) == c \in {"a", "'"}

t_isalpha(c) == c = "a"

InitPae ==
    /\ CacheOff /\ NormOff /\ NumOff /\ SPOff
    /\ affile = <<>>
    /\ apos = 0
    /\ oldformat = FALSE
    /\ section = "none"
    /\ naffix = 0
    /\ apc = "off"
    /\ pae \in {[str |-> s, pos |-> 1, state |-> PAE_WAIT_MASK, mask |-> <<>>,
                 find |-> <<>>, repl |-> <<>>, out |-> "run"] : s \in PaeLines}

\* one pass of the while loop of parse_affentry, or what follows the loop.
\* pos is the place of str in the line; mask, find and repl are the buffers
\* up to pmask, pfind and prepl.
parse_affentry ==
    /\ pae.out = "run"
    /\ LET state == pae.state
           c == pae.str[pae.pos]
           next == [pae EXCEPT !.pos = @ + 1]
           error == [pae EXCEPT !.out = "error"]
           return == [pae EXCEPT !.out =
                         IF pae.mask # <<>> /\ (pae.find # <<>> \/ pae.repl # <<>>)
                         THEN "true" ELSE "false"]
       IN  pae' =
             IF pae.pos > Len(pae.str) THEN return
             ELSE IF state = PAE_WAIT_MASK
             THEN IF c = "#" THEN [pae EXCEPT !.out = "false"]
                  ELSE IF ~t_isspace(c)
                  THEN [next EXCEPT !.mask = Append(@, c), !.state = PAE_INMASK]
                  ELSE next
             ELSE IF state = PAE_INMASK
             THEN IF c = ">" THEN [next EXCEPT !.state = PAE_WAIT_FIND]
                  ELSE IF ~t_isspace(c) THEN [next EXCEPT !.mask = Append(@, c)]
                  ELSE next
             ELSE IF state = PAE_WAIT_FIND
             THEN IF c = "-" THEN [next EXCEPT !.state = PAE_INFIND]
                  ELSE IF t_isalpha(c) \/ c = "'"
                  THEN [next EXCEPT !.repl = Append(@, c), !.state = PAE_INREPL]
                  ELSE IF ~t_isspace(c) THEN error
                  ELSE next
             ELSE IF state = PAE_INFIND
             THEN IF c = "," THEN [next EXCEPT !.state = PAE_WAIT_REPL]
                  ELSE IF t_isalpha(c) THEN [next EXCEPT !.find = Append(@, c)]
                  ELSE IF ~t_isspace(c) THEN error
                  ELSE next
             ELSE IF state = PAE_WAIT_REPL
             THEN IF c = "-" THEN return
                  ELSE IF t_isalpha(c)
                  THEN [next EXCEPT !.repl = Append(@, c), !.state = PAE_INREPL]
                  ELSE IF ~t_isspace(c) THEN error
                  ELSE next
             ELSE \* PAE_INREPL
                  IF c = "#" THEN return
                  ELSE IF t_isalpha(c) THEN [next EXCEPT !.repl = Append(@, c)]
                  ELSE IF ~t_isspace(c) THEN error
                  ELSE next
    /\ UNCHANGED <<affile, apos, oldformat, section, naffix, apc>>

SpecPae ==
    InitPae /\ [][parse_affentry /\ UNCHANGED <<cachevars, normvars, numvars, spvars>>]_vars

\* C27 as the specification words it: behind the ">" every character the
\* loop reads that is no whitespace, no letter and not the delimiter of the
\* state it is read in ("-" in wait-find and wait-repl, "," in in-find, "#"
\* in in-repl) raises the syntax error.
C27_EveryOtherCharacterRaises ==
    [][(/\ pae.out = "run" /\ pae.pos <= Len(pae.str)
        /\ pae.state >= PAE_WAIT_FIND
        /\ LET c == pae.str[pae.pos]
           IN  /\ c \notin {" ", "a"}
               /\ c # (IF pae.state = PAE_INFIND THEN ","
                       ELSE IF pae.state = PAE_INREPL THEN "#" ELSE "-"))
          => pae'.out = "error"]_vars

\* C27: the state of parse_affentry never moves back; behind the ">" a
\* character the loop reads raises the syntax error exactly when it is no
\* whitespace, no letter, not the delimiter of the state it is read in and
\* not an apostrophe read in wait-find (which starts the replacement); the
\* loop ends before the end of the line only at "#" in wait-mask or
\* in-repl and at "-" in wait-repl, and what follows is not read; true is
\* returned only with a mask and with a find or a replace string.
C27_ForwardAndStrict ==
    [][LET c == pae.str[pae.pos]
           inline == pae.out = "run" /\ pae.pos <= Len(pae.str)
           other == /\ pae.state >= PAE_WAIT_FIND
                    /\ c \notin {" ", "a"}
                    /\ c # (IF pae.state = PAE_INFIND THEN ","
                            ELSE IF pae.state = PAE_INREPL THEN "#" ELSE "-")
                    /\ ~(pae.state = PAE_WAIT_FIND /\ c = "'")
       IN  /\ pae'.state >= pae.state
           /\ pae'.state \in PAE_WAIT_MASK..PAE_INREPL
           /\ inline => ((pae'.out = "error") <=> other)
           /\ ~inline => pae'.out # "error"
           /\ (inline /\ pae'.out \in {"true", "false"}) =>
                 \/ c = "#" /\ pae.state \in {PAE_WAIT_MASK, PAE_INREPL}
                 \/ c = "-" /\ pae.state = PAE_WAIT_REPL
           /\ pae'.out = "true" =>
                 pae'.mask # <<>> /\ (pae'.find # <<>> \/ pae'.repl # <<>>)]_vars

\* a line went through wait-mask, in-mask, wait-find, in-find and wait-repl
\* with a find string, and the character read in wait-repl raised the error
C27_Witness ==
    /\ pae.out = "error"
    /\ pae.state = PAE_WAIT_REPL
    /\ pae.find # <<>>


\* C28: when a backend is about to publish the entry of the dictionary it
\* built, the bytes memcpy wrote, which begin behind the version header,
\* end inside the cache file that was created and mapped, and the size in
\* the entry covers the header and the dictionary.
C28_BlobInsideFile ==
    \A p \in Procs :
        pc[p] = "publish" =>
            /\ file.exists
            /\ file.copyEnd <= file.size
            /\ table[Tbl(p)].dict_size >= HeaderSize + dictBlobSize


\* C29: with flag aliases, the alias number getAffixFlagSet resolved and
\* every alias number NISortDictionary stored as the affix-set index of a
\* word is an index of a populated entry of AffixData: no read of the
\* table goes outside 0..nAffixData - 1.
C29_AliasInsideTable ==
    ConfBuild.useFlagAliases =>
        /\ \A k \in 1..Len(aout) :
              aout[k].err = "" =>
                  /\ ~aout[k].oob
                  /\ InAffixData(ConfBuild.AffixData, aout[k].curaffix)
        /\ \A k \in Built :
              /\ ~compiled[k].lost
              /\ \A i \in 1..Len(compiled[k].Spell) :
                    InAffixData(ConfBuild.AffixData, compiled[k].Spell[i].affix)


\* C30: a scan of the compound affix list by CheckCompoundAffixes, made by
\* SplitToVariants from the entry caff on, does not read behind the
\* terminator NISortAffixes wrote, and a scan that found no affix has
\* visited every real entry, the one with affix index 0 too: it ends at the
\* terminator (affix index ISPELL_INVALID_INDEX).
C30_ScanEndsAtTerminator ==
    (/\ npc = "split" /\ Top.pc = "affix" /\ Top.level > Top.startpos
     /\ Conf.CompoundAffix # <<>>)
        => LET r == CheckCompoundAffixes(Conf, Top.caff,
                        SubSeq(word, Top.level + 1, Len(word)),
                        Top.node # <<>>)
           IN  /\ ~r.overrun
               /\ r.ret < 0 =>
                     Conf.CompoundAffix[r.ptr].affix = ISPELL_INVALID_INDEX

====
